---- MODULE Spec2Model ----
(***************************************************************************)
(* ChineseIdGenerator (src/src/idGenerator.js): the identity-number codec, *)
(* the administrative hierarchy index and the region resolver, as a state   *)
(* machine.  One action per method invocation on one generator instance.    *)
(*                                                                          *)
(* Strings are sequences of one-character strings.  A Chinese character is  *)
(* written as an ASCII token ("bei" for the character of Beijing's first    *)
(* syllable, ...); two different characters have two different tokens.      *)
(***************************************************************************)
EXTENDS Integers, Sequences, FiniteSets, TLC

(***************************************************************************)
(* JavaScript values and string primitives                                  *)
(***************************************************************************)

DigitChars == <<"0", "1", "2", "3", "4", "5", "6", "7", "8", "9">>

IsDigit(c) == \E d \in 1..10 : DigitChars[d] = c

DigitVal(c) == (CHOOSE d \in 1..10 : DigitChars[d] = c) - 1

\* /^\d{n}$/.test(s)
AllDigits(s, n) == Len(s) = n /\ \A i \in 1..Len(s) : IsDigit(s[i])

\* String(num) for a non-negative integer
RECURSIVE StrNat(_)
StrNat(n) == IF n < 10 THEN <<DigitChars[n + 1]>>
             ELSE StrNat(n \div 10) \o <<DigitChars[(n % 10) + 1]>>

\* the value parseInt gives for a string that starts with no digit
NaN == -1

\* String(num) for a non-negative integer or NaN
Str(n) == IF n = NaN THEN <<"N", "a", "N">> ELSE StrNat(n)

RECURSIVE Zeros(_)
Zeros(k) == IF k <= 0 THEN <<>> ELSE <<"0">> \o Zeros(k - 1)

\* s.substring(a, b) with 0-based a (inclusive) and b (exclusive)
Substring(s, a, b) ==
  LET lo == IF a > Len(s) THEN Len(s) ELSE a
      hi == IF b > Len(s) THEN Len(s) ELSE b
  IN  IF hi <= lo THEN <<>> ELSE SubSeq(s, lo + 1, hi)

RECURSIVE ParseDigits(_, _, _)
ParseDigits(s, i, acc) ==
  IF i > Len(s) \/ ~IsDigit(s[i]) THEN acc
  ELSE ParseDigits(s, i + 1, acc * 10 + DigitVal(s[i]))

\* parseInt(s): the longest prefix of decimal digits, NaN when it is empty
ParseInt(s) == IF Len(s) = 0 \/ ~IsDigit(s[1]) THEN NaN ELSE ParseDigits(s, 1, 0)

\* a JavaScript value: undefined, a string, an integer or the number n + 0.5
Undefined == [t |-> "undefined", s |-> <<>>, n |-> 0]
JsStr(s) == [t |-> "string", s |-> s, n |-> 0]
JsNum(n) == [t |-> "number", s |-> <<>>, n |-> n]
JsHalf(n) == [t |-> "half", s |-> <<>>, n |-> n]

\* ToBoolean(v): undefined, '' and 0 are falsy
Truthy(v) == \/ v.t = "string" /\ Len(v.s) > 0
             \/ v.t = "number" /\ v.n # 0
             \/ v.t = "half"

\* String(v) as RegExp.prototype.test and template literals coerce it
ToStr(v) == IF v.t = "string" THEN v.s
            ELSE IF v.t = "number" THEN Str(v.n)
            ELSE <<"u", "n", "d", "e", "f", "i", "n", "e", "d">>

(***************************************************************************)
(* Insertion-ordered maps (JavaScript Map): sequences of [k, v] entries     *)
(***************************************************************************)

\* `Let(v, LAMBDA x : e)` is e with x bound to the value of v
Let(v, F(_)) == CHOOSE r \in {F(x) : x \in {v}} : TRUE

MapHas(m, k) == \E mm \in {m} : \E i \in 1..Len(mm) : mm[i].k = k

MapGet(m, k) ==
  Let(m, LAMBDA mm : mm[CHOOSE i \in 1..Len(mm) : mm[i].k = k].v)

\* Map.prototype.set: a present key keeps its position and takes the value
MapSet(m, k, v) ==
  Let(m, LAMBDA mm :
    IF MapHas(mm, k)
    THEN [i \in 1..Len(mm) |-> IF mm[i].k = k THEN [k |-> k, v |-> v] ELSE mm[i]]
    ELSE Append(mm, [k |-> k, v |-> v]))

\* map.get(k), the empty sequence when k is absent
SubMap(m, k) == Let(m, LAMBDA mm : IF MapHas(mm, k) THEN MapGet(mm, k) ELSE <<>>)

\* String.prototype.padStart(length, '0')
PadStart(s, length) == Zeros(length - Len(s)) \o s

\* _pad(num, length)
Pad(num, length) == PadStart(Str(num), length)

(***************************************************************************)
(* The random source.  One call of Math.random() returns k / RandDen for a  *)
(* drawn integer k in 0..RandDen-1.                                         *)
(***************************************************************************)

RandDen == 999

\* Math.floor(Math.random() * n)
RandFloor(k, n) == (k * n) \div RandDen

\* Math.round(Math.random())
RandRound(k) == IF 2 * k >= RandDen THEN 1 ELSE 0

(***************************************************************************)
(* Reference data of the package province-city-china/data (a miniature):    *)
(* two provinces (one direct-administered), one ordinary city, districts    *)
(* with the placeholder name shi-xia-qu, and townships with 12-digit codes. *)
(* One district bears a name that is also a key of commonCities, so that    *)
(* the exact index and the alias table can both answer for it.              *)
(***************************************************************************)

province == <<
  [code |-> Str(110000), name |-> <<"bei", "jing", "shi">>, province |-> Str(11)],
  [code |-> Str(420000), name |-> <<"hu", "bei", "sheng">>, province |-> Str(42)] >>

city == <<
  [code |-> Str(420100), name |-> <<"wu", "han", "shi">>,
   province |-> Str(42), city |-> Pad(1, 2)] >>

area == <<
  [code |-> Str(110101), name |-> <<"dong", "cheng2", "qu">>,
   province |-> Str(11), city |-> Pad(1, 2), area |-> Pad(1, 2)],
  [code |-> Str(110105), name |-> <<"chao", "yang", "qu">>,
   province |-> Str(11), city |-> Pad(1, 2), area |-> Pad(5, 2)],
  [code |-> Str(420101), name |-> <<"shi", "xia", "qu">>,
   province |-> Str(42), city |-> Pad(1, 2), area |-> Pad(1, 2)],
  [code |-> Str(420102), name |-> <<"jiang", "an2", "qu">>,
   province |-> Str(42), city |-> Pad(1, 2), area |-> Pad(2, 2)],
  [code |-> Str(420107), name |-> <<"cheng", "du">>,
   province |-> Str(42), city |-> Pad(1, 2), area |-> Pad(7, 2)] >>

town == <<
  [code |-> Str(110101) \o Pad(1000, 6), name |-> <<"dong", "hua", "men", "jie", "dao">>,
   province |-> Str(11), city |-> Pad(1, 2), area |-> Pad(1, 2), town |-> Pad(1000, 6)],
  [code |-> Str(420102) \o Pad(1000, 6), name |-> <<"da", "zhi", "jie", "dao">>,
   province |-> Str(42), city |-> Pad(1, 2), area |-> Pad(2, 2), town |-> Pad(1000, 6)] >>

\* the district name that stands for no concrete district
ShiXiaQu == <<"shi", "xia", "qu">>

(***************************************************************************)
(* Constants of the constructor                                             *)
(***************************************************************************)

commonCities == <<
  [k |-> <<"bei", "jing">>,    v |-> Str(110000)],
  [k |-> <<"shang", "hai">>,   v |-> Str(310000)],
  [k |-> <<"tian", "jin">>,    v |-> Str(120000)],
  [k |-> <<"chong", "qing">>,  v |-> Str(500000)],
  [k |-> <<"guang", "zhou">>,  v |-> Str(440100)],
  [k |-> <<"shen", "zhen">>,   v |-> Str(440300)],
  [k |-> <<"wu", "han">>,      v |-> Str(420100)],
  [k |-> <<"nan", "jing">>,    v |-> Str(320100)],
  [k |-> <<"hang", "zhou">>,   v |-> Str(330100)],
  [k |-> <<"xi", "an">>,       v |-> Str(610100)],
  [k |-> <<"cheng", "du">>,    v |-> Str(510100)] >>

ID_WEIGHTS == <<7, 9, 10, 5, 8, 4, 2, 1, 6, 3, 7, 9, 10, 5, 8, 4, 2>>

ID_CHECK_CODES == <<"1", "0", "X", "9", "8", "7", "6", "5", "4", "3", "2">>

DIRECT_CITIES == {Str(11), Str(12), Str(31), Str(50)}

(***************************************************************************)
(* Identity number codec                                                    *)
(***************************************************************************)

\* the year function that takes every fourth year for a leap year
IsLeapYearJulian(year) == year % 4 = 0

\* _isLeapYear(year)
IsLeapYear(year) == (year % 4 = 0 /\ year % 100 # 0) \/ year % 400 = 0

\* the month-length rule shared by _getBirthdayFromAge and _getRandomBirthday
MaxDay(year, month) ==
  IF month \in {Pad(4, 2), Pad(6, 2), Pad(9, 2), Pad(11, 2)} THEN 30
  ELSE IF month = Pad(2, 2) THEN (IF IsLeapYear(year) THEN 29 ELSE 28)
  ELSE 31

\* _getRandomBirthday(), its three draws being kYear, kMonth, kDay
GetRandomBirthday(kYear, kMonth, kDay) ==
  LET year == 1950 + RandFloor(kYear, 2005 - 1950 + 1)
      month == Pad(RandFloor(kMonth, 12) + 1, 2)
      day == Pad(RandFloor(kDay, MaxDay(year, month)) + 1, 2)
  IN  Str(year) \o month \o day

\* _getBirthdayFromAge(age) on the day `now`, its draws being kMonth, kDay
GetBirthdayFromAge(now, age, kMonth, kDay) ==
  LET birthYear == now.year - age
      month == Pad(RandFloor(kMonth, 12) + 1, 2)
      day == Pad(RandFloor(kDay, MaxDay(birthYear, month)) + 1, 2)
  IN  Str(birthYear) \o month \o day

\* _generateSequenceCode without its handling of the two ends of the range
SequenceNumberUnclamped(gender, k) ==
  LET num == RandFloor(k, 999) + 1
      isOdd == num % 2 = 1
  IN  IF (gender = 1 /\ ~isOdd) \/ (gender = 0 /\ isOdd)
      THEN num + (IF gender = 1 THEN 1 ELSE -1)
      ELSE num

\* the adjusted number of _generateSequenceCode before padding
SequenceNumber(gender, k) ==
  LET num == RandFloor(k, 999) + 1
      isOdd == num % 2 = 1
      adj == num + (IF gender = 1 THEN 1 ELSE -1)
  IN  IF (gender = 1 /\ ~isOdd) \/ (gender = 0 /\ isOdd)
      THEN (IF adj > 999 THEN 999 ELSE IF adj < 1 THEN 2 ELSE adj)
      ELSE num

\* _generateSequenceCode(gender), its draw being k
GenerateSequenceCode(gender, k) == Pad(SequenceNumber(gender, k), 3)

RECURSIVE WeightedSum(_, _)
WeightedSum(idCardBase, i) ==
  IF i = 0 THEN 0
  ELSE WeightedSum(idCardBase, i - 1) + DigitVal(idCardBase[i]) * ID_WEIGHTS[i]

\* _calculateCheckCode summing over one position too few
CalculateCheckCodeShort(idCardBase) ==
  IF Len(idCardBase) >= 17 /\ \A i \in 1..17 : IsDigit(idCardBase[i])
  THEN <<ID_CHECK_CODES[(WeightedSum(idCardBase, 16) % 11) + 1]>>
  ELSE ToStr(Undefined)

\* _calculateCheckCode(idCardBase); a missing or non-digit character makes the
\* sum NaN and the table lookup undefined
CalculateCheckCode(idCardBase) ==
  IF Len(idCardBase) >= 17 /\ \A i \in 1..17 : IsDigit(idCardBase[i])
  THEN <<ID_CHECK_CODES[(WeightedSum(idCardBase, 17) % 11) + 1]>>
  ELSE ToStr(Undefined)

\* _validateIdCardOptions(options): the error it throws, "" when it returns
ValidateIdCardOptions(options) ==
  IF Truthy(options.areaCode) /\ ~AllDigits(ToStr(options.areaCode), 6)
  THEN "areaCode"
  ELSE IF Truthy(options.birthday) /\ ~AllDigits(ToStr(options.birthday), 8)
  THEN "birthday"
  ELSE IF options.gender.t # "undefined"
          /\ ~(options.gender.t = "number" /\ options.gender.n \in {0, 1})
  THEN "gender"
  ELSE ""

\* _extractInfoFromIdCard reading the birth date one position too far right
ExtractInfoFromIdCardShifted(idCard, now) ==
  LET birthYear == ParseInt(Substring(idCard, 7, 11))
      birthMonth == ParseInt(Substring(idCard, 11, 13))
      birthDay == ParseInt(Substring(idCard, 13, 15))
      before == \/ now.month < birthMonth
                \/ (now.month = birthMonth /\ now.day < birthDay)
  IN  [birthYear |-> birthYear, birthMonth |-> birthMonth, birthDay |-> birthDay,
       age |-> (now.year - birthYear) - (IF before THEN 1 ELSE 0),
       formattedBirthDate |->
         Str(birthYear) \o <<"-">> \o Pad(birthMonth, 2) \o <<"-">> \o Pad(birthDay, 2)]

\* _extractInfoFromIdCard(idCard) on the day `now`
ExtractInfoFromIdCard(idCard, now) ==
  LET birthYear == ParseInt(Substring(idCard, 6, 10))
      birthMonth == ParseInt(Substring(idCard, 10, 12))
      birthDay == ParseInt(Substring(idCard, 12, 14))
      before == \/ now.month < birthMonth
                \/ (now.month = birthMonth /\ now.day < birthDay)
  IN  [birthYear |-> birthYear, birthMonth |-> birthMonth, birthDay |-> birthDay,
       age |-> (now.year - birthYear) - (IF before THEN 1 ELSE 0),
       formattedBirthDate |->
         Str(birthYear) \o <<"-">> \o Pad(birthMonth, 2) \o <<"-">> \o Pad(birthDay, 2)]

(***************************************************************************)
(* The generator instance: a record of the fields the constructor sets.     *)
(* A field that holds null or an object is a record with an isNull flag.    *)
(***************************************************************************)

PluginTypes ==
  {"nameGenerator", "phoneGenerator", "emailGenerator", "addressGenerator",
   "idCardGenerator"}

NoPlugin == [isNull |-> TRUE, throws |-> FALSE, value |-> Undefined]

NullCodes == [isNull |-> TRUE, codes |-> <<>>]

NullFuzzy == [isNull |-> TRUE, prefix |-> <<>>, include |-> <<>>]

\* the fields as the constructor leaves them before it calls _initData; builds
\* counts the times the loops of _initData and of _buildFuzzyAreaNameCache ran
NewInstance(lazyLoad, precomputeFuzzyMatch) ==
  [initialized |-> FALSE,
   builds |-> [hierarchy |-> 0, fuzzy |-> 0],
   options |-> [lazyLoad |-> lazyLoad, precomputeFuzzyMatch |-> precomputeFuzzyMatch],
   provinceMap |-> <<>>, cityMap |-> <<>>, areaMap |-> <<>>, townMap |-> <<>>,
   cache |-> [areaCodeByName |-> <<>>, nameByAreaCode |-> <<>>,
              randomAreaCodes |-> NullCodes, fuzzyAreaNameMap |-> NullFuzzy],
   plugins |-> [t \in PluginTypes |-> NoPlugin]]

\* a plugin handed to registerPlugin: whether it is a function, and what the
\* function does when it is called (it throws, or it returns value)
NotAFunction == [isFunction |-> FALSE, throws |-> FALSE, value |-> Undefined]

\* registerPlugin(type, plugin): the instance it leaves and the error it throws
RegisterPlugin(g, type, plugin) ==
  IF type \notin DOMAIN g.plugins THEN [g |-> g, error |-> "type"]
  ELSE IF ~plugin.isFunction THEN [g |-> g, error |-> "plugin"]
  ELSE [g |-> [g EXCEPT !.plugins[type] =
                          [isNull |-> FALSE, throws |-> plugin.throws,
                           value |-> plugin.value]],
        error |-> ""]

\* removePlugin(type) that removes the plugins of all types
RemovePluginAll(g, type) ==
  IF type \in DOMAIN g.plugins THEN [g EXCEPT !.plugins = [t \in PluginTypes |-> NoPlugin]]
  ELSE g

\* removePlugin(type)
RemovePlugin(g, type) ==
  IF type \in DOMAIN g.plugins THEN [g EXCEPT !.plugins[type] = NoPlugin] ELSE g

(***************************************************************************)
(* Administrative hierarchy index                                           *)
(***************************************************************************)

\* _addAreaCodeMapping(code, name) on the _cache record
AddAreaCodeMapping(c, code, name) ==
  [c EXCEPT !.areaCodeByName =
              IF MapHas(@, name) THEN @ ELSE Append(@, [k |-> name, v |-> code]),
            !.nameByAreaCode = MapSet(@, code, name)]

\* _getProvinceName(provinceCode); the data of this model gives every city and
\* district a province of the province table, so the branch that calls
\* _ensureInitialized is only taken on an initialized instance
GetProvinceName(g, provinceCode) ==
  IF MapHas(g.provinceMap, provinceCode)
  THEN MapGet(g.provinceMap, provinceCode).name
  ELSE <<>>

NoCity == [code |-> <<>>, name |-> <<>>, province |-> <<>>, city |-> <<>>]

\* _getCityInfo(provinceCode, cityCode): null or the city unit
GetCityInfo(g, provinceCode, cityCode) ==
  Let(SubMap(g.cityMap, provinceCode), LAMBDA cities :
    IF MapHas(cities, cityCode)
    THEN [isNull |-> FALSE, v |-> MapGet(cities, cityCode)]
    ELSE [isNull |-> TRUE, v |-> NoCity])

\* one iteration of _buildProvinceMaps
AddProvince(g, p) ==
  [g EXCEPT !.provinceMap = MapSet(@, p.province, p),
            !.cache = AddAreaCodeMapping(@, p.code, p.name)]

\* _buildProvinceMaps(), from the i-th province on
RECURSIVE BuildProvinceMaps(_, _)
BuildProvinceMaps(g, i) ==
  IF i > Len(province) THEN g
  ELSE Let(AddProvince(g, province[i]), LAMBDA g1 : BuildProvinceMaps(g1, i + 1))

\* one iteration of _buildCityMaps
AddCity(g, c) ==
  Let([g EXCEPT !.cityMap =
         MapSet(@, c.province, MapSet(SubMap(@, c.province), c.city, c))],
      LAMBDA g1 :
        Let(GetProvinceName(g1, c.province) \o c.name, LAMBDA fullName :
          [g1 EXCEPT !.cache =
             AddAreaCodeMapping(AddAreaCodeMapping(@, c.code, fullName), c.code, c.name)]))

\* _buildCityMaps(), from the i-th city on
RECURSIVE BuildCityMaps(_, _)
BuildCityMaps(g, i) ==
  IF i > Len(city) THEN g
  ELSE Let(AddCity(g, city[i]), LAMBDA g1 : BuildCityMaps(g1, i + 1))

\* areaMap.get(province).get(city).set(area, a), the inner Maps made when absent
SetArea(areaMap, a) ==
  Let(SubMap(areaMap, a.province), LAMBDA byCity :
    MapSet(areaMap, a.province,
           MapSet(byCity, a.city, MapSet(SubMap(byCity, a.city), a.area, a))))

\* one iteration of _buildAreaMaps
AddArea(g, a) ==
  Let([g EXCEPT !.areaMap = SetArea(@, a)], LAMBDA g1 :
    Let(GetCityInfo(g1, a.province, a.city), LAMBDA cityInfo :
      Let(GetProvinceName(g1, a.province)
            \o (IF cityInfo.isNull THEN <<>> ELSE cityInfo.v.name) \o a.name,
          LAMBDA fullName :
            [g1 EXCEPT !.cache =
               AddAreaCodeMapping(AddAreaCodeMapping(@, a.code, fullName),
                                  a.code, a.name)])))

\* _buildAreaMaps(), from the i-th district on
RECURSIVE BuildAreaMaps(_, _)
BuildAreaMaps(g, i) ==
  IF i > Len(area) THEN g
  ELSE Let(AddArea(g, area[i]), LAMBDA g1 : BuildAreaMaps(g1, i + 1))

\* one iteration of _buildTownMaps
AddTown(g, t) ==
  [g EXCEPT !.townMap = MapSet(@, t.code, Append(SubMap(@, t.code), t))]

\* _buildTownMaps(), from the i-th township on
RECURSIVE BuildTownMaps(_, _)
BuildTownMaps(g, i) ==
  IF i > Len(town) THEN g
  ELSE Let(AddTown(g, town[i]), LAMBDA g1 : BuildTownMaps(g1, i + 1))

\* _initData()
InitData(g) ==
  IF g.initialized THEN g
  ELSE Let(BuildProvinceMaps(g, 1), LAMBDA g1 :
       Let(BuildCityMaps(g1, 1), LAMBDA g2 :
       Let(BuildAreaMaps(g2, 1), LAMBDA g3 :
       Let(BuildTownMaps(g3, 1), LAMBDA g4 :
         [g4 EXCEPT !.initialized = TRUE, !.builds.hierarchy = @ + 1]))))

\* _ensureInitialized()
EnsureInitialized(g) == IF ~g.initialized THEN InitData(g) ELSE g

\* _getAreaNameByCode(areaCode) on an initialized instance: null or the name
GetAreaNameByCode(g, areaCode) ==
  Let(SubMap(g.cache.nameByAreaCode, areaCode), LAMBDA name :
    IF Len(name) > 0 THEN [isNull |-> FALSE, v |-> name]
    ELSE [isNull |-> TRUE, v |-> <<>>])

\* _getTownsByAreaCode(areaCode) on an initialized instance
GetTownsByAreaCode(g, areaCode) == SubMap(g.townMap, areaCode)

\* s.replace(pattern, ''): s without the first occurrence of pattern
RemoveFirst(s, pattern) ==
  LET at == {i \in 1..(Len(s) - Len(pattern) + 1) :
               SubSeq(s, i, i + Len(pattern) - 1) = pattern}
  IN  IF pattern = <<>> \/ at = {} THEN s
      ELSE LET i == CHOOSE x \in at : \A y \in at : x <= y
           IN  SubSeq(s, 1, i - 1) \o SubSeq(s, i + Len(pattern), Len(s))

\* _getAddressHierarchy without the removal of repeated names and without the
\* exclusion of the placeholder district
GetAddressHierarchyRaw(g, areaCode, k) ==
  Let(EnsureInitialized(g), LAMBDA g1 :
    LET provinceCode == Substring(areaCode, 0, 2)
        provinceName == GetAreaNameByCode(g1, provinceCode \o Zeros(4)).v
        cityName == GetAreaNameByCode(g1, Substring(areaCode, 0, 4) \o Zeros(2)).v
        districtName == GetAreaNameByCode(g1, Substring(areaCode, 0, 6)).v
        towns == GetTownsByAreaCode(g1, Substring(areaCode, 0, 6))
    IN  [g |-> g1,
         v |-> (IF provinceName # <<>> THEN <<provinceName>> ELSE <<>>)
               \o (IF provinceCode \notin DIRECT_CITIES /\ cityName # <<>>
                   THEN <<cityName>> ELSE <<>>)
               \o (IF districtName # <<>> THEN <<districtName>> ELSE <<>>)
               \o (IF Len(towns) > 0 /\ towns[RandFloor(k, Len(towns)) + 1].name # <<>>
                   THEN <<towns[RandFloor(k, Len(towns)) + 1].name>> ELSE <<>>)])

\* _getAddressHierarchy(areaCode), its draw being k: the instance it leaves and
\* the fragments; null and the empty string are both the empty sequence
GetAddressHierarchy(g, areaCode, k) ==
  Let(EnsureInitialized(g), LAMBDA g1 :
    LET provinceCode == Substring(areaCode, 0, 2)
        provinceName == GetAreaNameByCode(g1, provinceCode \o Zeros(4)).v
        cityName == GetAreaNameByCode(g1, Substring(areaCode, 0, 4) \o Zeros(2)).v
        districtName == GetAreaNameByCode(g1, Substring(areaCode, 0, 6)).v
        simpleCityName == RemoveFirst(cityName, provinceName)
        simpleDistrictName ==
          LET d1 == RemoveFirst(districtName, provinceName)
          IN  IF cityName # <<>> /\ simpleCityName # <<>>
              THEN RemoveFirst(d1, simpleCityName) ELSE d1
        towns == GetTownsByAreaCode(g1, Substring(areaCode, 0, 6))
    IN  [g |-> g1,
         v |-> (IF provinceName # <<>> THEN <<provinceName>> ELSE <<>>)
               \o (IF provinceCode \notin DIRECT_CITIES /\ cityName # <<>>
                      /\ simpleCityName # <<>>
                   THEN <<simpleCityName>> ELSE <<>>)
               \o (IF districtName # <<>> /\ simpleDistrictName # <<>>
                      /\ simpleDistrictName # ShiXiaQu
                   THEN <<simpleDistrictName>> ELSE <<>>)
               \o (IF Len(towns) > 0 /\ towns[RandFloor(k, Len(towns)) + 1].name # <<>>
                   THEN <<towns[RandFloor(k, Len(towns)) + 1].name>> ELSE <<>>)])

(***************************************************************************)
(* Region resolver                                                          *)
(***************************************************************************)

EndsWith00(code) ==
  Len(code) >= 2 /\ code[Len(code) - 1] = "0" /\ code[Len(code)] = "0"

\* area.filter(item => !item.code.endsWith('00')).map(item => item.code)
RandomAreaCodeList ==
  LET kept == SelectSeq(area, LAMBDA a : ~EndsWith00(a.code))
  IN  [i \in 1..Len(kept) |-> kept[i].code]

\* _getRandomAreaCode() on an initialized instance, its draw being k
GetRandomAreaCode(g, k) ==
  Let(IF g.cache.randomAreaCodes.isNull
      THEN [g EXCEPT !.cache.randomAreaCodes =
                       [isNull |-> FALSE, codes |-> RandomAreaCodeList]]
      ELSE g,
      LAMBDA g1 :
        [g |-> g1,
         v |-> g1.cache.randomAreaCodes.codes[
                 RandFloor(k, Len(g1.cache.randomAreaCodes.codes)) + 1]])

\* bucket.includes(code) || bucket.push(code) on the bucket of key
AddToBucket(m, key, code) ==
  Let(SubMap(m, key), LAMBDA bucket :
    MapSet(m, key, IF \E j \in 1..Len(bucket) : bucket[j] = code
                   THEN bucket ELSE Append(bucket, code)))

Min(a, b) == IF a < b THEN a ELSE b

\* the prefix loop of _buildFuzzyAreaNameCache for one name
RECURSIVE AddPrefixes(_, _, _, _)
AddPrefixes(m, name, code, i) ==
  IF i > Min(Len(name), 3) THEN m
  ELSE Let(AddToBucket(m, SubSeq(name, 1, i), code),
           LAMBDA m1 : AddPrefixes(m1, name, code, i + 1))

\* the character loop of _buildFuzzyAreaNameCache for one name
RECURSIVE AddChars(_, _, _, _)
AddChars(m, name, code, i) ==
  IF i > Len(name) THEN m
  ELSE Let(AddToBucket(m, <<name[i]>>, code),
           LAMBDA m1 : AddChars(m1, name, code, i + 1))

\* one iteration of the loop of _buildFuzzyAreaNameCache
AddFuzzy(fz, name, code) ==
  [isNull |-> FALSE,
   prefix |-> IF Len(name) > 1 THEN AddPrefixes(fz.prefix, name, code, 1)
              ELSE fz.prefix,
   include |-> AddChars(fz.include, name, code, 1)]

\* the loop of _buildFuzzyAreaNameCache over areaCodeByName.entries()
RECURSIVE FuzzyFrom(_, _, _)
FuzzyFrom(fz, entries, i) ==
  IF i > Len(entries) THEN fz
  ELSE Let(AddFuzzy(fz, entries[i].k, entries[i].v),
           LAMBDA fz1 : FuzzyFrom(fz1, entries, i + 1))

\* _buildFuzzyAreaNameCache()
BuildFuzzyAreaNameCache(g) ==
  [g EXCEPT !.cache.fuzzyAreaNameMap =
     FuzzyFrom([isNull |-> FALSE, prefix |-> <<>>, include |-> <<>>],
               g.cache.areaCodeByName, 1),
            !.builds.fuzzy = @ + 1]

\* the fuzzy tiers answering with the last code of a bucket
FuzzyLookupLast(g, areaName) ==
  Let(SubMap(g.cache.fuzzyAreaNameMap.prefix, areaName), LAMBDA prefixMatches :
    Let(SubMap(g.cache.fuzzyAreaNameMap.include, areaName), LAMBDA includeMatches :
      IF Len(prefixMatches) > 0
      THEN [g |-> g, isNull |-> FALSE, v |-> prefixMatches[Len(prefixMatches)]]
      ELSE IF Len(includeMatches) > 0
      THEN [g |-> g, isNull |-> FALSE, v |-> includeMatches[Len(includeMatches)]]
      ELSE [g |-> g, isNull |-> TRUE, v |-> <<>>]))

\* the tiers of _getAreaCodeByName(areaName) that follow the exact index and
\* the alias table, on an instance whose fuzzy index is built
FuzzyLookup(g, areaName) ==
  Let(SubMap(g.cache.fuzzyAreaNameMap.prefix, areaName), LAMBDA prefixMatches :
    Let(SubMap(g.cache.fuzzyAreaNameMap.include, areaName), LAMBDA includeMatches :
      IF Len(prefixMatches) > 0
      THEN [g |-> g, isNull |-> FALSE, v |-> prefixMatches[1]]
      ELSE IF Len(includeMatches) > 0
      THEN [g |-> g, isNull |-> FALSE, v |-> includeMatches[1]]
      ELSE [g |-> g, isNull |-> TRUE, v |-> <<>>]))

\* _getAreaCodeByName consulting the alias table before the exact index
GetAreaCodeByNameAliasFirst(g, areaName) ==
  Let(EnsureInitialized(g), LAMBDA g1 :
    IF MapHas(commonCities, areaName)
    THEN [g |-> g1, isNull |-> FALSE, v |-> MapGet(commonCities, areaName)]
    ELSE IF MapHas(g1.cache.areaCodeByName, areaName)
    THEN [g |-> g1, isNull |-> FALSE, v |-> MapGet(g1.cache.areaCodeByName, areaName)]
    ELSE Let(IF g1.cache.fuzzyAreaNameMap.isNull
             THEN BuildFuzzyAreaNameCache(g1) ELSE g1,
             LAMBDA g2 : FuzzyLookup(g2, areaName)))

\* _getAreaCodeByName that answers null where the fuzzy index is not built yet
GetAreaCodeByNameNoBuild(g, areaName) ==
  Let(EnsureInitialized(g), LAMBDA g1 :
    IF MapHas(g1.cache.areaCodeByName, areaName)
    THEN [g |-> g1, isNull |-> FALSE, v |-> MapGet(g1.cache.areaCodeByName, areaName)]
    ELSE IF MapHas(commonCities, areaName)
    THEN [g |-> g1, isNull |-> FALSE, v |-> MapGet(commonCities, areaName)]
    ELSE IF g1.cache.fuzzyAreaNameMap.isNull
    THEN [g |-> g1, isNull |-> TRUE, v |-> <<>>]
    ELSE FuzzyLookup(g1, areaName))

\* _getAreaCodeByName(areaName): the instance it leaves and null or the code
GetAreaCodeByName(g, areaName) ==
  Let(EnsureInitialized(g), LAMBDA g1 :
    IF MapHas(g1.cache.areaCodeByName, areaName)
    THEN [g |-> g1, isNull |-> FALSE, v |-> MapGet(g1.cache.areaCodeByName, areaName)]
    ELSE IF MapHas(commonCities, areaName)
    THEN [g |-> g1, isNull |-> FALSE, v |-> MapGet(commonCities, areaName)]
    ELSE Let(IF g1.cache.fuzzyAreaNameMap.isNull
             THEN BuildFuzzyAreaNameCache(g1) ELSE g1,
             LAMBDA g2 : FuzzyLookup(g2, areaName)))

\* the pattern test without its two trailing zeros: /^\d{6}$/
IsMunicipalPatternAnySix(areaCode) == AllDigits(areaCode, 6)

\* /^\d{4}00$/.test(areaCode)
IsMunicipalPattern(areaCode) == AllDigits(areaCode, 6) /\ EndsWith00(areaCode)

\* the candidate districts without the rule of the direct-administered
\* municipalities: province and city must both match
DistrictsNoDirect(areaCode) ==
  LET provinceCode == Substring(areaCode, 0, 2)
      cityCode == Substring(areaCode, 2, 4)
  IN  SelectSeq(area, LAMBDA a : /\ a.province = provinceCode
                                 /\ a.city = cityCode
                                 /\ a.name # ShiXiaQu)

\* the candidate districts without the test of the name
DistrictsAnyName(areaCode) ==
  LET provinceCode == Substring(areaCode, 0, 2)
      cityCode == Substring(areaCode, 2, 4)
  IN  IF provinceCode \in DIRECT_CITIES
      THEN SelectSeq(area, LAMBDA a : a.province = provinceCode)
      ELSE SelectSeq(area, LAMBDA a : /\ a.province = provinceCode
                                      /\ a.city = cityCode)

\* the candidate districts of _resolveDistrictCode, in dataset order
Districts(areaCode) ==
  LET provinceCode == Substring(areaCode, 0, 2)
      cityCode == Substring(areaCode, 2, 4)
  IN  IF provinceCode \in DIRECT_CITIES
      THEN SelectSeq(area, LAMBDA a : a.province = provinceCode /\ a.name # ShiXiaQu)
      ELSE SelectSeq(area, LAMBDA a : /\ a.province = provinceCode
                                      /\ a.city = cityCode
                                      /\ a.name # ShiXiaQu)

\* _resolveDistrictCode(areaCode), its draw being k
ResolveDistrictCode(areaCode, k) ==
  IF IsMunicipalPattern(areaCode)
  THEN Let(Districts(areaCode), LAMBDA districts :
         IF Len(districts) > 0
         THEN districts[RandFloor(k, Len(districts)) + 1].code
         ELSE areaCode)
  ELSE areaCode

(***************************************************************************)
(* Generation methods.  Each returns the instance it leaves, the error it   *)
(* throws ("" when it returns normally) and its value.                      *)
(***************************************************************************)

\* `${areaCode}${birthday}${sequenceCode}`
IdCardBase(areaCode, birthday, sequenceCode) == areaCode \o birthday \o sequenceCode

\* generateIdCard(options); d holds the draws of its calls of Math.random()
GenerateIdCard(g, options, d) ==
  Let(EnsureInitialized(g), LAMBDA g1 :
    IF ValidateIdCardOptions(options) # ""
    THEN [g |-> g1, error |-> ValidateIdCardOptions(options), v |-> <<>>]
    ELSE
      Let(IF Truthy(options.areaCode) THEN [g |-> g1, v |-> ToStr(options.areaCode)]
          ELSE GetRandomAreaCode(g1, d.area),
          LAMBDA areaCode :
      Let(IF Truthy(options.birthday) THEN ToStr(options.birthday)
          ELSE GetRandomBirthday(d.year, d.month, d.day),
          LAMBDA birthday :
      Let(IF options.gender.t # "undefined" THEN options.gender.n
          ELSE RandRound(d.gender),
          LAMBDA gender :
      Let(IdCardBase(areaCode.v, birthday, GenerateSequenceCode(gender, d.seq)),
          LAMBDA idCardBase :
            [g |-> areaCode.g, error |-> "",
             v |-> idCardBase \o CalculateCheckCode(idCardBase)])))))

\* idValidator.isValid(id) of the package id-validator: 17 digits, a calendar
\* birth date and the check character of the first 17
IdValidatorIsValid(id) ==
  /\ Len(id) = 18
  /\ AllDigits(SubSeq(id, 1, 17), 17)
  /\ ParseInt(Substring(id, 10, 12)) \in 1..12
  /\ ParseInt(Substring(id, 12, 14)) \in
       1..MaxDay(ParseInt(Substring(id, 6, 10)), Substring(id, 10, 12))
  /\ <<id[18]>> = CalculateCheckCode(SubSeq(id, 1, 17))

\* _generateIdCardWithPlugin(options)
GenerateIdCardWithPlugin(g, options, d) ==
  Let(g.plugins["idCardGenerator"], LAMBDA plugin :
    IF /\ ~plugin.isNull
       /\ ~plugin.throws
       /\ Truthy(plugin.value)
       /\ plugin.value.t = "string"
       /\ IdValidatorIsValid(plugin.value.s)
    THEN [g |-> g, error |-> "", v |-> plugin.value.s]
    ELSE GenerateIdCard(g, options, d))

(***************************************************************************)
(* Pinyin utility (utils/pinyin): the entries of PINYIN_MAP for the         *)
(* characters that names of the model contain.  A Chinese character is a    *)
(* token of several letters; a key of one letter or sign is no Chinese      *)
(* character.                                                               *)
(***************************************************************************)

PINYIN_MAP == <<
  [k |-> "wang", v |-> <<"w", "a", "n", "g">>],
  [k |-> "zhang", v |-> <<"z", "h", "a", "n", "g">>],
  [k |-> "huang", v |-> <<"h", "u", "a", "n", "g">>],
  [k |-> "zhou2", v |-> <<"z", "h", "o", "u">>],
  [k |-> "gao", v |-> <<"g", "a", "o">>],
  [k |-> "lin", v |-> <<"l", "i", "n">>],
  [k |-> "ma", v |-> <<"m", "a">>],
  [k |-> "xie", v |-> <<"x", "i", "e">>],
  [k |-> "tang", v |-> <<"t", "a", "n", "g">>],
  [k |-> "yu", v |-> <<"y", "u">>],
  [k |-> "xu2", v |-> <<"x", "u">>],
  [k |-> "zeng", v |-> <<"c", "e", "n", "g">>],
  [k |-> "ming", v |-> <<"m", "i", "n", "g">>],
  [k |-> "ying", v |-> <<"y", "i", "n", "g">>],
  [k |-> "san", v |-> <<"s", "a", "n">>],
  [k |-> "de", v |-> <<"d", "e">>],
  [k |-> "yi", v |-> <<"y", "i">>],
  [k |-> "shi2", v |-> <<"s", "h", "i">>] >>

LowerLetters ==
  <<"a", "b", "c", "d", "e", "f", "g", "h", "i", "j", "k", "l", "m",
    "n", "o", "p", "q", "r", "s", "t", "u", "v", "w", "x", "y", "z">>

UpperLetters ==
  <<"A", "B", "C", "D", "E", "F", "G", "H", "I", "J", "K", "L", "M",
    "N", "O", "P", "Q", "R", "S", "T", "U", "V", "W", "X", "Y", "Z">>

\* the signs that texts of the model contain besides letters and digits
Signs == {"@", ".", "-", "_", " "}

\* /[一-龥]/.test(char)
IsChinese(c) ==
  /\ ~IsDigit(c)
  /\ c \notin Signs
  /\ \A i \in 1..26 : c # LowerLetters[i] /\ c # UpperLetters[i]

\* char.toLowerCase()
LowerChar(c) ==
  IF \E i \in 1..26 : UpperLetters[i] = c
  THEN LowerLetters[CHOOSE i \in 1..26 : UpperLetters[i] = c]
  ELSE c

\* s.toLowerCase()
ToLowerCase(s) == [i \in 1..Len(s) |-> LowerChar(s[i])]

\* the strings of a sequence, joined
RECURSIVE Join(_)
Join(parts) == IF parts = <<>> THEN <<>> ELSE Head(parts) \o Join(Tail(parts))

\* toPinyin(chinese): the pinyin of a character of the table, x for another
\* Chinese character, any other character as it is
ToPinyin(chinese) ==
  Join([i \in 1..Len(chinese) |->
          IF IsChinese(chinese[i])
          THEN (IF MapHas(PINYIN_MAP, chinese[i]) THEN MapGet(PINYIN_MAP, chinese[i])
                ELSE <<"x">>)
          ELSE <<chinese[i]>>])

\* name.replace(/[^一-龥]/g, '')
ChineseOnly(name) == SelectSeq(name, IsChinese)

\* nameToEmailPrefix(name), name being a string
NameToEmailPrefix(name) ==
  IF Len(name) = 0 THEN <<>> ELSE ToLowerCase(ToPinyin(ChineseOnly(name)))

(***************************************************************************)
(* The library mockjs, a draw k choosing among a few of its values          *)
(***************************************************************************)

\* Math.random() < tenths / 10
RandBelow(k, tenths) == 10 * k < tenths * RandDen

\* Mock.Random.cname(): a family name and a given name of one or two characters
CNames == <<
  <<"wang", "ming">>, <<"zhang", "xiu", "ying">>, <<"li", "fang2">> >>

\* characters Mock.Random.cword draws from
CWordPool == <<
  "de", "yi", "shi2" >>

MockCName(k) == CNames[RandFloor(k, Len(CNames)) + 1]

\* Mock.Random.cword(n): n characters of the pool
MockCWord(k, n) ==
  [i \in 1..n |-> CWordPool[((RandFloor(k, Len(CWordPool)) + i - 1) % Len(CWordPool)) + 1]]

\* Mock.Random.word(3, 10): lower-case letters
MockWord(k) == [i \in 1..(3 + RandFloor(k, 8)) |-> LowerLetters[((k + i) % 26) + 1]]

\* Mock.mock(/^1[3-9]\d{9}$/)
MockPhone(k, kRest) ==
  <<"1">> \o Str(3 + RandFloor(k, 7)) \o Pad(RandFloor(kRest, 100000), 5)
    \o Pad(RandFloor(kRest, 10000), 4)

\* Mock.mock('@province@city@county@cword(2,5)路@natural(1, 1000)号')
MockAddress(k) ==
  <<"guang", "dong", "sheng", "guang", "zhou", "shi", "nan", "hai", "qu">> \o MockCWord(k, 2 + RandFloor(k, 4))
    \o <<"lu">> \o Str(1 + RandFloor(k, 1000)) \o <<"hao">>

(***************************************************************************)
(* Address utility (utils/address)                                          *)
(***************************************************************************)

\* prefixes of generateCommunityName
CommunityPrefixes == <<
  <<"long", "hu">>, <<"wan", "ke">>, <<"heng", "da">>,
  <<"bi", "gui", "yuan2">>, <<"bao", "li2">>, <<"lv2", "di">>,
  <<"hua", "run">>, <<"zhong", "hai">>, <<"jin2", "di">>,
  <<"zhao2", "shang2">>, <<"rong", "chuang">>, <<"shi3", "mao">>,
  <<"fu2", "li3">>, <<"ya", "ju", "le">>, <<"yuan3", "yang3">>,
  <<"xu3", "hui">>, <<"jin2", "mao">>, <<"hua", "xia2">>,
  <<"yang", "guang2">>, <<"he2", "xie2">> >>

\* suffixes of generateCommunityName
CommunitySuffixes == <<
  <<"hua2", "yuan2">>, <<"xiao2", "qu">>, <<"jia", "yuan2">>,
  <<"gong", "guan">>, <<"hua", "fu3">>, <<"ming2", "yuan4">>,
  <<"yu2", "jing2">>, <<"hao2", "ting">>, <<"xin", "cheng2">>,
  <<"kang", "cheng2">>, <<"ya", "yuan4">>, <<"jia2", "yuan2">>,
  <<"li4", "du">>, <<"tian", "di">>, <<"shi3", "jia">>, <<"shui", "an2">>,
  <<"cui", "yuan2">>, <<"shang3", "cheng2">>, <<"ming2", "du">>,
  <<"yu2", "fu3">> >>

\* prefixes of generateBuildingName
BuildingPrefixes == <<
  <<"guo2", "ji">>, <<"huan", "qiu">>, <<"zhong", "yang4">>,
  <<"dong", "fang">>, <<"xi", "bu">>, <<"nan", "fang">>, <<"bei", "fang">>,
  <<"wan", "da2">>, <<"jia3", "he3">>, <<"jin2", "rong">>,
  <<"shang2", "mao2">>, <<"ke", "ji2">>, <<"shu", "zi">>,
  <<"chuang", "xin">>, <<"wei", "lai">>, <<"shi4", "dai">>,
  <<"shi3", "ji3">>, <<"he2", "ping">>, <<"xing", "sheng2">>, <<"fan", "hua">> >>

\* suffixes of generateBuildingName
BuildingSuffixes == <<
  <<"guang", "chang">>, <<"zhong", "xin2">>, <<"da", "sha">>,
  <<"shang2", "cheng2">>, <<"da", "lou">>, <<"da", "sha">>,
  <<"shang2", "wu3", "lou">>, <<"xie3", "zi", "lou">>, <<"da", "sha">>,
  <<"zhong", "xin2">> >>

\* generateCommunityName()
GenerateCommunityName(d) ==
  CommunityPrefixes[RandFloor(d.prefix, Len(CommunityPrefixes)) + 1]
    \o CommunitySuffixes[RandFloor(d.suffix, Len(CommunitySuffixes)) + 1]

\* generateBuildingName()
GenerateBuildingName(d) ==
  BuildingPrefixes[RandFloor(d.prefix, Len(BuildingPrefixes)) + 1]
    \o BuildingSuffixes[RandFloor(d.suffix, Len(BuildingSuffixes)) + 1]

\* generateResidentialAddress()
GenerateResidentialAddress(d) ==
  GenerateCommunityName(d) \o Str(RandFloor(d.building, 30) + 1) \o <<"hao", "lou">>
    \o Str(RandFloor(d.unit, 6) + 1) \o <<"dan", "yuan5">>
    \o Str(RandFloor(d.room, 2) + 1 + RandFloor(d.floor, 30) * 100) \o <<"shi5">>

\* generateStreetAddress()
GenerateStreetAddress(d) ==
  MockCWord(d.cword, 2 + RandFloor(d.cword, 3)) \o <<"lu">>
    \o Str(1 + RandFloor(d.building, 1000)) \o <<"hao">>

\* generateCommercialAddress()
GenerateCommercialAddress(d) ==
  GenerateBuildingName(d) \o Str(RandFloor(d.floor, 20) + 1) \o <<"ceng">>
    \o Str(RandFloor(d.room, 10) + 1) \o <<"hao">>

\* generateDetailedAddress(communityRatio, streetRatio, buildingRatio), the
\* ratios in tenths
GenerateDetailedAddressOf(communityRatio, streetRatio, d) ==
  IF RandBelow(d.detail, communityRatio) THEN GenerateResidentialAddress(d)
  ELSE IF RandBelow(d.detail, communityRatio + streetRatio)
  THEN GenerateStreetAddress(d)
  ELSE GenerateCommercialAddress(d)

(***************************************************************************)
(* Name, phone, e-mail and address of a person                              *)
(***************************************************************************)

\* the forty family names of the constructor
COMMON_SURNAMES == <<
  "li", "wang", "zhang", "liu", "chen", "yang2", "zhao", "huang", "zhou2",
  "wu2", "xu", "sun", "hu2", "zhu", "gao", "lin", "he", "guo", "ma", "luo",
  "liang", "song", "zheng", "xie", "han2", "tang", "feng", "yu", "dong2",
  "xiao", "cheng3", "cao", "yuan", "deng", "xu2", "fu", "shen2", "zeng",
  "peng", "lv" >>

EMAIL_DOMAINS == <<
  <<"q", "q", ".", "c", "o", "m">>,
  <<"1", "6", "3", ".", "c", "o", "m">>,
  <<"g", "m", "a", "i", "l", ".", "c", "o", "m">>,
  <<"1", "2", "6", ".", "c", "o", "m">>,
  <<"o", "u", "t", "l", "o", "o", "k", ".", "c", "o", "m">>,
  <<"s", "i", "n", "a", ".", "c", "o", "m">>,
  <<"s", "o", "h", "u", ".", "c", "o", "m">> >>

\* _generateCustomName(gender) of an instance constructed without nameOptions
GenerateCustomName(gender, d) ==
  LET surname == COMMON_SURNAMES[RandFloor(d.surname, Len(COMMON_SURNAMES)) + 1]
      nameLength == IF RandBelow(d.nameLength, 6) THEN 1 ELSE 2
      fullName == MockCName(d.cname)
      originalName == SubSeq(fullName, 2, Len(fullName))
  IN  IF Len(originalName) # nameLength
      THEN (IF nameLength = 1 /\ Len(originalName) > 1
            THEN <<surname, originalName[1]>>
            ELSE IF nameLength = 2 /\ Len(originalName) < 2
            THEN <<surname>> \o originalName \o MockCWord(d.cword, 1)
            ELSE <<surname>> \o MockCWord(d.cword, nameLength))
      ELSE <<surname>> \o originalName

\* _generateEmail(name)
GenerateEmail(name, d) ==
  LET prefix == NameToEmailPrefix(name)
      emailPrefix == IF Len(prefix) > 0 THEN prefix ELSE MockWord(d.word)
      domain == EMAIL_DOMAINS[RandFloor(d.domain, Len(EMAIL_DOMAINS)) + 1]
  IN  emailPrefix \o Str(RandFloor(d.number, 1000)) \o <<"@">> \o domain

\* _generateDetailedAddress() of an instance constructed without
\* addressOptions: the ratios 0.6, 0.3 and 0.1
GenerateDetailedAddress(d) == GenerateDetailedAddressOf(6, 3, d)

\* _generateAddressByAreaCode(areaCode)
GenerateAddressByAreaCode(g, areaCode, d) ==
  Let(EnsureInitialized(g), LAMBDA g1 :
    IF GetAreaNameByCode(g1, areaCode).isNull
    THEN [g |-> g1, v |-> MockAddress(d.mock)]
    ELSE Let(GetAddressHierarchy(g1, areaCode, d.town), LAMBDA addressParts :
           [g |-> addressParts.g,
            v |-> Join(addressParts.v) \o GenerateDetailedAddress(d)]))

\* a plugin has returned, without throwing, a non-empty string
ReturnsString(plugin) ==
  /\ ~plugin.isNull
  /\ ~plugin.throws
  /\ Truthy(plugin.value)
  /\ plugin.value.t = "string"

\* /^1[3-9]\d{9}$/.test(s)
IsPhone(s) ==
  /\ Len(s) = 11
  /\ s[1] = "1"
  /\ s[2] \in {"3", "4", "5", "6", "7", "8", "9"}
  /\ \A i \in 3..11 : IsDigit(s[i])

\* s.includes(c) for a character c
Includes(s, c) == \E i \in 1..Len(s) : s[i] = c

\* _generateNameWithPlugin(gender) that trusts whatever the plugin returns
GenerateNameWithPluginUnchecked(g, gender, d) ==
  Let(g.plugins["nameGenerator"], LAMBDA plugin :
    IF ~plugin.isNull /\ ~plugin.throws THEN ToStr(plugin.value)
    ELSE GenerateCustomName(gender, d))

\* _generateNameWithPlugin(gender)
GenerateNameWithPlugin(g, gender, d) ==
  Let(g.plugins["nameGenerator"], LAMBDA plugin :
    IF ReturnsString(plugin) THEN plugin.value.s
    ELSE GenerateCustomName(gender, d))

\* _generatePhoneWithPlugin()
GeneratePhoneWithPlugin(g, d) ==
  Let(g.plugins["phoneGenerator"], LAMBDA plugin :
    IF ReturnsString(plugin) /\ IsPhone(plugin.value.s) THEN plugin.value.s
    ELSE MockPhone(d.phone, d.phoneRest))

\* _generateEmailWithPlugin(name)
GenerateEmailWithPlugin(g, name, d) ==
  Let(g.plugins["emailGenerator"], LAMBDA plugin :
    IF ReturnsString(plugin) /\ Includes(plugin.value.s, "@") THEN plugin.value.s
    ELSE GenerateEmail(name, d))

\* _generateAddressWithPlugin(areaCode)
GenerateAddressWithPlugin(g, areaCode, d) ==
  Let(g.plugins["addressGenerator"], LAMBDA plugin :
    IF ReturnsString(plugin) THEN [g |-> g, v |-> plugin.value.s]
    ELSE GenerateAddressByAreaCode(g, areaCode, d))

\* the properties name, phone, email and address of a record, and the instance
\* their generation leaves
ProfileFields(g, gender, areaCode, d) ==
  Let(GenerateNameWithPlugin(g, gender, d), LAMBDA name :
  Let(GenerateAddressWithPlugin(g, areaCode, d), LAMBDA address :
    [g |-> address.g, name |-> name, phone |-> GeneratePhoneWithPlugin(g, d),
     email |-> GenerateEmailWithPlugin(g, name, d), address |-> address.v]))

\* a person record before its properties are set
NoRecord == [name |-> <<>>, gender |-> "", age |-> 0, birthDate |-> <<>>,
             idCard |-> <<>>, phone |-> <<>>, email |-> <<>>, address |-> <<>>,
             areaName |-> <<>>]

UnknownArea == <<"wei", "zhi2", "di", "qu">>

\* _getAreaNameByCode(areaCode) || 'unknown area'
AreaNameOrUnknown(g, areaCode) ==
  Let(GetAreaNameByCode(g, areaCode), LAMBDA name :
    IF name.isNull THEN UnknownArea ELSE name.v)

\* gender === 1 ? male : female
GenderLabel(gender) == IF gender = JsNum(1) THEN "male" ELSE "female"

\* generatePersonInfo(options) on the day `now`
GeneratePersonInfo(g, options, d, now) ==
  Let(EnsureInitialized(g), LAMBDA g1 :
  Let(IF options.gender.t # "undefined" THEN options.gender
      ELSE JsNum(RandRound(d.gender)),
      LAMBDA gender :
  Let(GenerateIdCardWithPlugin(
        g1, [areaCode |-> options.areaCode, birthday |-> options.birthday,
             gender |-> gender], d),
      LAMBDA id :
        IF id.error # "" THEN [g |-> id.g, error |-> id.error, v |-> NoRecord]
        ELSE Let(ExtractInfoFromIdCard(id.v, now), LAMBDA info :
             Let(ProfileFields(id.g, gender, Substring(id.v, 0, 6), d), LAMBDA f :
               [g |-> f.g, error |-> "",
                v |-> [name |-> f.name,
                       gender |-> GenderLabel(gender),
                       age |-> info.age,
                       birthDate |-> info.formattedBirthDate,
                       idCard |-> id.v,
                       phone |-> f.phone,
                       email |-> f.email,
                       address |-> f.address,
                       areaName |-> AreaNameOrUnknown(f.g, Substring(id.v, 0, 6))]])))))

\* the region code generatePersonInfoByAreaAndAge falls back to
DefaultAreaCode == Str(110101)

\* generatePersonInfoByAreaAndAge(areaName, age, options) on the day `now`
GeneratePersonInfoByAreaAndAge(g, areaName, age, options, d, now) ==
  Let(EnsureInitialized(g), LAMBDA g1 :
    IF ~Truthy(areaName) THEN [g |-> g1, error |-> "areaName", v |-> NoRecord]
    ELSE IF age.t = "undefined" \/ age.n < 0 \/ age.n > 120
    THEN [g |-> g1, error |-> "age", v |-> NoRecord]
    ELSE
      Let(GetAreaCodeByName(g1, ToStr(areaName)), LAMBDA found :
      Let(ResolveDistrictCode(IF found.isNull THEN DefaultAreaCode ELSE found.v,
                              d.district),
          LAMBDA areaCode :
      Let(GetBirthdayFromAge(now, age.n, d.bmonth, d.bday), LAMBDA birthday :
        GeneratePersonInfo(
          found.g, [areaCode |-> JsStr(areaCode), birthday |-> JsStr(birthday),
                    gender |-> options.gender], d, now)))))

(***************************************************************************)
(* Batch generation                                                         *)
(***************************************************************************)

\* the most records one internal batch holds
BatchLimit == 1000

\* the largest count handed to generateBatch
MaxCount == 3

BatchSize(count) == Min(count, BatchLimit)

\* Math.ceil(count / batchSize)
Batches(count) == (count + BatchSize(count) - 1) \div BatchSize(count)

\* the size of a batch with the last one taking the remainder of the division
CurrentBatchSizeRemainder(count, batchIndex) ==
  IF batchIndex = Batches(count) - 1 THEN count % BatchSize(count)
  ELSE BatchSize(count)

\* currentBatchSize of the batch batchIndex
CurrentBatchSize(count, batchIndex) ==
  IF batchIndex = Batches(count) - 1 THEN count - batchIndex * BatchSize(count)
  ELSE BatchSize(count)

\* _prepareBatchGeneration building the fuzzy index whenever the instance asks
\* for precomputation
PrepareBatchGenerationRebuild(g, k) ==
  Let(IF g.cache.randomAreaCodes.isNull THEN GetRandomAreaCode(g, k).g ELSE g,
      LAMBDA g1 :
        IF g1.options.precomputeFuzzyMatch
        THEN BuildFuzzyAreaNameCache(g1) ELSE g1)

\* _prepareBatchGeneration(options), the draw of its _getRandomAreaCode being k
PrepareBatchGeneration(g, k) ==
  Let(IF g.cache.randomAreaCodes.isNull THEN GetRandomAreaCode(g, k).g ELSE g,
      LAMBDA g1 :
        IF g1.options.precomputeFuzzyMatch /\ g1.cache.fuzzyAreaNameMap.isNull
        THEN BuildFuzzyAreaNameCache(g1) ELSE g1)

\* the birthInfo of _generateBatchInternal without the decrement before the
\* birthday of the year
BatchBirthInfoNoDecrement(birthday, now) ==
  LET birthYear == ParseInt(Substring(birthday, 0, 4))
      birthMonth == ParseInt(Substring(birthday, 4, 6))
      birthDay == ParseInt(Substring(birthday, 6, 8))
  IN  [birthYear |-> birthYear, birthMonth |-> birthMonth, birthDay |-> birthDay,
       age |-> now.year - birthYear,
       formattedBirthDate |->
         Str(birthYear) \o <<"-">> \o Pad(birthMonth, 2) \o <<"-">> \o Pad(birthDay, 2)]

\* the birthInfo _generateBatchInternal parses from options.birthday
BatchBirthInfo(birthday, now) ==
  LET birthYear == ParseInt(Substring(birthday, 0, 4))
      birthMonth == ParseInt(Substring(birthday, 4, 6))
      birthDay == ParseInt(Substring(birthday, 6, 8))
      before == \/ now.month < birthMonth
                \/ (now.month = birthMonth /\ now.day < birthDay)
  IN  [birthYear |-> birthYear, birthMonth |-> birthMonth, birthDay |-> birthDay,
       age |-> (now.year - birthYear) - (IF before THEN 1 ELSE 0),
       formattedBirthDate |->
         Str(birthYear) \o <<"-">> \o Pad(birthMonth, 2) \o <<"-">> \o Pad(birthDay, 2)]

\* one iteration of the loop of _generateBatchInternal, d being its draws:
\* the instance it leaves, the error it throws and the record it pushes
BatchRecord(g, options, d, now) ==
  Let(IF options.gender.t # "undefined" THEN options.gender
      ELSE JsNum(RandRound(d.gender)),
      LAMBDA gender :
  Let(GenerateIdCard(g, [areaCode |-> options.areaCode,
                         birthday |-> options.birthday,
                         gender |-> gender], d),
      LAMBDA id :
        IF id.error # "" THEN [g |-> id.g, error |-> id.error, v |-> NoRecord]
        ELSE
          Let(IF Truthy(options.birthday)
              THEN BatchBirthInfo(ToStr(options.birthday), now)
              ELSE ExtractInfoFromIdCard(id.v, now),
              LAMBDA info :
          Let(ProfileFields(id.g, gender, Substring(id.v, 0, 6), d), LAMBDA f :
                [g |-> f.g, error |-> "",
                 v |-> [name |-> f.name,
                        gender |-> GenderLabel(gender),
                        age |-> info.age,
                        birthDate |-> info.formattedBirthDate,
                        idCard |-> id.v,
                        phone |-> f.phone,
                        email |-> f.email,
                        address |-> f.address,
                        areaName |->
                          IF Truthy(options.areaCode)
                          THEN AreaNameOrUnknown(f.g, ToStr(options.areaCode))
                          ELSE AreaNameOrUnknown(f.g, Substring(id.v, 0, 6))]]))))

\* the loop of _generateBatchInternal for the records i..last, pushed onto
\* acc: the first half of the iterations, then the second; ds[i] are the draws
\* of record i
RECURSIVE BatchLoop(_, _, _, _, _, _, _)
BatchLoop(g, options, ds, i, last, now, acc) ==
  IF i > last THEN [g |-> g, error |-> "", v |-> acc]
  ELSE IF i = last
  THEN Let(BatchRecord(g, options, ds[i], now), LAMBDA rec :
         IF rec.error # "" THEN [g |-> rec.g, error |-> rec.error, v |-> <<>>]
         ELSE [g |-> rec.g, error |-> "", v |-> Append(acc, rec.v)])
  ELSE Let(BatchLoop(g, options, ds, i, (i + last) \div 2, now, acc), LAMBDA half :
         IF half.error # "" THEN half
         ELSE BatchLoop(half.g, options, ds, (i + last) \div 2 + 1, last, now, half.v))

\* (batchIndex + 1) * batchSize / count, not capped at 1
ProgressUncapped(count, batchIndex) ==
  [num |-> (batchIndex + 1) * BatchSize(count), den |-> count]

\* Math.min((batchIndex + 1) * batchSize / count, 1) as the fraction num / den
Progress(count, batchIndex) ==
  [num |-> Min((batchIndex + 1) * BatchSize(count), count), den |-> count]

\* the loop of generateBatch from batch batchIndex on; acc holds the records and
\* the progress values reported so far, each with the number of records that
\* were generated when the callback was invoked with it
RECURSIVE BatchesFrom(_, _, _, _, _, _, _, _)
BatchesFrom(g, count, options, ds, hasCallback, batchIndex, now, acc) ==
  IF batchIndex >= Batches(count)
  THEN [g |-> g, error |-> "", v |-> acc.v, progress |-> acc.progress]
  ELSE
    Let(BatchLoop(g, options, ds, batchIndex * BatchSize(count) + 1,
                  batchIndex * BatchSize(count) + CurrentBatchSize(count, batchIndex),
                  now, <<>>),
        LAMBDA batch :
          IF batch.error # ""
          THEN [g |-> batch.g, error |-> batch.error, v |-> <<>>,
                progress |-> acc.progress]
          ELSE
            Let([v |-> acc.v \o batch.v,
                 progress |->
                   IF hasCallback
                   THEN Append(acc.progress,
                               [value |-> Progress(count, batchIndex),
                                done |-> Len(acc.v \o batch.v)])
                   ELSE acc.progress],
                LAMBDA acc1 :
                  BatchesFrom(batch.g, count, options, ds, hasCallback,
                              batchIndex + 1, now, acc1)))

\* generateBatch that tests count <= 0 alone, not Number.isInteger(count)
GenerateBatchAnyNumber(g, count, options, hasCallback, k, ds, now) ==
  Let(EnsureInitialized(g), LAMBDA g1 :
    IF count.t \notin {"number", "half"} \/ count.n <= 0
    THEN [g |-> g1, error |-> "count", v |-> <<>>, progress |-> <<>>]
    ELSE Let(PrepareBatchGeneration(g1, k), LAMBDA g2 :
           BatchesFrom(g2, count.n, options, ds, hasCallback, 0, now,
                       [v |-> <<>>, progress |-> <<>>])))

\* generateBatch(count, options, progressCallback) on the day `now`; k is the
\* draw of _prepareBatchGeneration and ds[i] are the draws of record i
GenerateBatch(g, count, options, hasCallback, k, ds, now) ==
  Let(EnsureInitialized(g), LAMBDA g1 :
    IF count.t # "number" \/ count.n <= 0
    THEN [g |-> g1, error |-> "count", v |-> <<>>, progress |-> <<>>]
    ELSE Let(PrepareBatchGeneration(g1, k), LAMBDA g2 :
           BatchesFrom(g2, count.n, options, ds, hasCallback, 0, now,
                       [v |-> <<>>, progress |-> <<>>])))

(***************************************************************************)
(* State: the generator instance, the calendar day of the system clock and  *)
(* the record of the call that last returned (its arguments and result).    *)
(***************************************************************************)

VARIABLES gen, today, ret

vars == <<gen, today, ret>>

NoOptions == [areaCode |-> Undefined, birthday |-> Undefined, gender |-> Undefined,
              name |-> Undefined]

NoInfo == [birthYear |-> 0, birthMonth |-> 0, birthDay |-> 0, age |-> 0,
           formattedBirthDate |-> <<>>]

NoDraws == [area |-> 0, year |-> 0, month |-> 0, day |-> 0, gender |-> 0, seq |-> 0,
            district |-> 0, bmonth |-> 0, bday |-> 0,
            surname |-> 0, nameLength |-> 0, cname |-> 0, cword |-> 0,
            phone |-> 0, phoneRest |-> 0, word |-> 0, domain |-> 0, number |-> 0,
            mock |-> 0, town |-> 0, detail |-> 0, prefix |-> 0, suffix |-> 0,
            building |-> 0, unit |-> 0, room |-> 0, floor |-> 0]

NoRet == [op |-> "", status |-> "idle", error |-> "", options |-> NoOptions,
          areaName |-> Undefined, age |-> Undefined, count |-> Undefined,
          code |-> <<>>, again |-> FALSE, gender |-> 0, draw |-> 0, value |-> <<>>,
          isNull |-> FALSE, towns |-> <<>>, parts |-> <<>>,
          type |-> "", plugin |-> NotAFunction, draws |-> NoDraws,
          hasCallback |-> FALSE, data |-> "reference", entries |-> 0,
          info |-> NoInfo, records |-> <<>>, progress |-> <<>>]

\* the constructor precomputing the fuzzy index before it loads the hierarchy
ConstructFuzzyFirst(lazyLoad, precomputeFuzzyMatch) ==
  LET g == NewInstance(lazyLoad, precomputeFuzzyMatch)
  IN  IF ~lazyLoad
      THEN (IF precomputeFuzzyMatch THEN InitData(BuildFuzzyAreaNameCache(g))
            ELSE InitData(g))
      ELSE g

\* new ChineseIdGenerator({lazyLoad, precomputeFuzzyMatch})
Construct(lazyLoad, precomputeFuzzyMatch) ==
  LET g == NewInstance(lazyLoad, precomputeFuzzyMatch)
  IN  IF ~lazyLoad
      THEN (IF precomputeFuzzyMatch THEN BuildFuzzyAreaNameCache(InitData(g))
            ELSE InitData(g))
      ELSE g

(***************************************************************************)
(* Inputs                                                                   *)
(***************************************************************************)

\* the days the system clock may show
Todays == {[year |-> 2025, month |-> 6, day |-> 16],
           [year |-> 2024, month |-> 2, day |-> 29]}

AreaCodeInputs ==
  {Undefined, JsStr(<<>>), JsStr(Str(1234)), JsStr(<<"1", "1", "0", "1", "0", "X">>),
   JsStr(Str(1101011)), JsStr(Str(110101)), JsStr(Str(420100))}

BirthdayInputs ==
  {Undefined, JsStr(<<>>), JsStr(<<"2", "0", "2", "X", "0", "1", "0", "1">>),
   JsStr(Str(199001)), JsStr(Str(19900615)), JsStr(Str(19900616)),
   JsStr(Str(19900617)), JsStr(Str(20000229)), JsStr(Str(19851231))}

GenderInputs == {Undefined, JsNum(0), JsNum(1), JsNum(2)}

\* names handed to the lookups: a district, a district whose name is an alias
\* key, a province, alias keys, a prefix of a name, single characters, a name
\* that nothing matches, the empty and the missing name, and two names of two
\* characters that begin no indexed name but share a character with one
AreaNameInputs ==
  {JsStr(<<"dong", "cheng2", "qu">>), JsStr(<<"cheng", "du">>),
   JsStr(<<"hu", "bei", "sheng">>), JsStr(<<"bei", "jing", "shi">>),
   JsStr(<<"wu", "han">>), JsStr(<<"shang", "hai">>), JsStr(<<"jiang", "an2">>),
   JsStr(<<"shi">>), JsStr(<<"yang">>), JsStr(<<"zz">>), JsStr(<<>>), Undefined,
   JsStr(<<"zz", "yang">>), JsStr(<<"yang", "chao">>), JsStr(<<"hu">>),
   JsStr(<<"hu", "bei">>)}

\* names handed to generatePersonInfoByAreaAndAge
PersonAreaNames ==
  {JsStr(<<"dong", "cheng2", "qu">>), JsStr(<<"hu", "bei", "sheng">>),
   JsStr(<<"wu", "han">>), JsStr(<<"bei", "jing">>), JsStr(<<"zz">>),
   JsStr(<<>>), Undefined}

\* codes handed to _resolveDistrictCode
CodeInputs ==
  {Str(110000), Str(420100), Str(420000), Str(310000), Str(440100),
   Str(110101), Str(420101), Str(420107), Str(1234), Str(11000),
   <<"1", "1", "0", "X", "0", "0">>}

\* district codes handed to _getTownsByAreaCode and _getAddressHierarchy: the
\* districts of the data
DistrictInputs == {area[i].code : i \in 1..Len(area)}

AgeInputs == {Undefined, JsNum(-1), JsNum(0), JsNum(1), JsNum(30), JsNum(120), JsNum(121)}

\* well-formed birthdays around the days of Todays, and one of the year 990
ExplicitBirthdays ==
  {JsStr(Str(19900615)), JsStr(Str(19900616)), JsStr(Str(19900617)),
   JsStr(Str(20000229)), JsStr(Str(20000301)), JsStr(Str(20240101)),
   JsStr(Pad(9900615, 8))}

CountInputs ==
  {Undefined, JsNum(-1), JsNum(0), JsNum(1), JsNum(2), JsNum(MaxCount), JsHalf(2),
   JsStr(Str(2))}

\* counts above the size of one internal batch: one record more, two full
\* batches, and two full batches and one record
LargeCounts == {JsNum(BatchLimit + 1), JsNum(2 * BatchLimit), JsNum(2 * BatchLimit + 1)}

\* the draws of n records, record i drawing from the seed and i
DrawStream(seed, n) ==
  [i \in 1..n |->
     [NoDraws EXCEPT !.area = (seed + 7 * i) % RandDen,
                     !.year = (seed + 11 * i) % RandDen,
                     !.month = (seed + 13 * i) % RandDen,
                     !.day = (seed + 17 * i) % RandDen,
                     !.gender = (seed + 500 * i) % RandDen,
                     !.seq = (seed + 19 * i) % RandDen]]

\* the most plugins registered on the instance at a time
MaxPlugins == 2

\* what a plugin function does: it throws, or it returns the value v
Throws == [isFunction |-> TRUE, throws |-> TRUE, value |-> Undefined]

Returns(v) == [isFunction |-> TRUE, throws |-> FALSE, value |-> v]

\* the identity number a plugin returns: well-formed, of a woman born on
\* 1990-03-07 in the district 110105
PluginIdCard ==
  IdCardBase(Str(110105), Str(19900307), Pad(2, 3))
    \o CalculateCheckCode(IdCardBase(Str(110105), Str(19900307), Pad(2, 3)))

\* the plugins handed to registerPlugin for a type: one that throws, ones
\* whose value the check of the type rejects (the empty string, a number, a
\* short phone number, an address without the at sign, a number of 17
\* digits) and ones whose value it accepts
PluginInputs(type) ==
  {Throws}
  \cup (IF type = "nameGenerator"
        THEN {Returns(JsStr(<<>>)), Returns(JsStr(<<"zhang", "san", "feng">>)),
              Returns(JsStr(<<"wang", "fang2">>))}
        ELSE IF type = "phoneGenerator"
        THEN {Returns(JsStr(Str(12345))), Returns(JsStr(Str(1380) \o Pad(138000, 7)))}
        ELSE IF type = "emailGenerator"
        THEN {Returns(JsStr(<<"t", "e", "s", "t">>)),
              Returns(JsStr(<<"t", "e", "s", "t", "@", "e", "x", ".", "c", "o", "m">>))}
        ELSE IF type = "addressGenerator"
        THEN {Returns(JsNum(42)), Returns(JsStr(<<"ce", "shi", "di", "zhi3">>))}
        ELSE IF type = "idCardGenerator"
        THEN {Returns(JsStr(SubSeq(PluginIdCard, 1, 17))), Returns(JsStr(PluginIdCard))}
        ELSE {Returns(JsStr(<<"x">>))})

\* the types handed to registerPlugin and removePlugin: the five types and one
\* that the instance does not know
TypeInputs == PluginTypes \cup {"ageGenerator"}

\* the names handed to generatePersonInfo as options.name
NameInputs == {Undefined, JsStr(<<"li", "ming">>)}

\* the draws of the name, the e-mail address and the address of a record
ProfileDraws ==
  {[NoDraws EXCEPT !.surname = 0, !.nameLength = 0, !.cname = 0, !.detail = 0],
   [NoDraws EXCEPT !.surname = RandDen - 1, !.nameLength = RandDen - 1,
                   !.cname = RandDen \div 2, !.cword = 1, !.detail = 7 * (RandDen \div 10),
                   !.domain = RandDen - 1, !.number = RandDen - 1,
                   !.phone = RandDen - 1, !.phoneRest = RandDen - 1,
                   !.gender = RandDen - 1],
   [NoDraws EXCEPT !.surname = 1 + RandDen \div 40, !.nameLength = RandDen - 1,
                   !.cname = RandDen - 1, !.detail = RandDen - 1,
                   !.prefix = RandDen \div 2, !.suffix = RandDen \div 2]}

\* draws k of Math.random() = k / RandDen: both ends and the middle
EndDraws == {0, RandDen - 1}

SomeDraws == {0, 1, RandDen \div 2, RandDen - 2, RandDen - 1}

AllDraws == 0..(RandDen - 1)

\* the draws a call of generateIdCard(options) consumes; a draw it does not
\* consume is 0
IdCardDraws(options, seqDraws) ==
  {[NoDraws EXCEPT !.area = ka, !.year = ky, !.month = km, !.day = kd,
                   !.gender = kg, !.seq = ks] :
     ka \in (IF Truthy(options.areaCode) THEN {0} ELSE EndDraws),
     ky \in (IF Truthy(options.birthday) THEN {0} ELSE EndDraws),
     km \in (IF Truthy(options.birthday) THEN {0} ELSE EndDraws),
     kd \in (IF Truthy(options.birthday) THEN {0} ELSE EndDraws),
     kg \in (IF options.gender.t # "undefined" THEN {0} ELSE EndDraws),
     ks \in seqDraws}

(***************************************************************************)
(* Actions: one per method invocation; Return hands the result to the caller*)
(***************************************************************************)

Idle == ret.status = "idle"

Outcome(r) == IF r.error = "" THEN "ok" ELSE "throw"

\* generator.generateIdCard(options)
GenerateIdCardCall ==
  /\ Idle
  /\ \E a \in AreaCodeInputs, b \in BirthdayInputs, x \in GenderInputs :
       LET options == [areaCode |-> a, birthday |-> b, gender |-> x, name |-> Undefined]
       IN  \E d \in IdCardDraws(options, SomeDraws) :
             \E r \in {GenerateIdCard(gen, options, d)} :
                 /\ gen' = r.g
                 /\ ret' = [NoRet EXCEPT !.op = "generateIdCard", !.status = Outcome(r),
                                         !.error = r.error, !.options = options,
                                         !.draw = d.seq, !.value = r.v]
  /\ UNCHANGED today

\* generator._generateSequenceCode(gender)
GenerateSequenceCodeCall ==
  /\ Idle
  /\ \E gender \in {0, 1}, k \in AllDraws :
       ret' = [NoRet EXCEPT !.op = "_generateSequenceCode", !.status = "ok",
                            !.gender = gender, !.draw = k,
                            !.value = GenerateSequenceCode(gender, k)]
  /\ UNCHANGED <<gen, today>>

\* generator._extractInfoFromIdCard(idCard), idCard being the number the call
\* of generateIdCard has just returned
ExtractInfoFromIdCardCall ==
  /\ ret.op = "generateIdCard"
  /\ ret.status = "ok"
  /\ ret' = [ret EXCEPT !.op = "_extractInfoFromIdCard",
                        !.info = ExtractInfoFromIdCard(ret.value, today)]
  /\ UNCHANGED <<gen, today>>

\* generator._getAreaCodeByName(areaName)
GetAreaCodeByNameCall ==
  /\ Idle
  /\ \E areaName \in AreaNameInputs :
       /\ areaName.t = "string"
       /\ \E r \in {GetAreaCodeByName(gen, areaName.s)} :
            /\ gen' = r.g
            /\ ret' = [NoRet EXCEPT !.op = "_getAreaCodeByName", !.status = "ok",
                                    !.areaName = areaName, !.isNull = r.isNull,
                                    !.value = r.v]
  /\ UNCHANGED today

\* generator._resolveDistrictCode(areaCode)
ResolveDistrictCodeCall ==
  /\ Idle
  /\ \E areaCode \in CodeInputs, k \in SomeDraws :
       ret' = [NoRet EXCEPT !.op = "_resolveDistrictCode", !.status = "ok",
                            !.code = areaCode, !.draw = k,
                            !.value = ResolveDistrictCode(areaCode, k)]
  /\ UNCHANGED <<gen, today>>

\* generator._resolveDistrictCode(code), code being what the call of
\* _resolveDistrictCode has just returned
ResolveDistrictCodeAgainCall ==
  /\ ret.op = "_resolveDistrictCode"
  /\ ~ret.again
  /\ \E k \in SomeDraws :
       ret' = [ret EXCEPT !.code = ret.value, !.again = TRUE, !.draw = k,
                          !.value = ResolveDistrictCode(ret.value, k)]
  /\ UNCHANGED <<gen, today>>

\* generator._getTownsByAreaCode(areaCode)
GetTownsByAreaCodeCall ==
  /\ Idle
  /\ \E areaCode \in DistrictInputs :
       \E g1 \in {EnsureInitialized(gen)} :
         /\ gen' = g1
         /\ ret' = [NoRet EXCEPT !.op = "_getTownsByAreaCode", !.status = "ok",
                                 !.code = areaCode,
                                 !.towns = GetTownsByAreaCode(g1, areaCode)]
  /\ UNCHANGED today

\* generator._getAddressHierarchy(areaCode)
GetAddressHierarchyCall ==
  /\ Idle
  /\ \E areaCode \in DistrictInputs, k \in EndDraws :
       \E r \in {GetAddressHierarchy(gen, areaCode, k)} :
         /\ gen' = r.g
         /\ ret' = [NoRet EXCEPT !.op = "_getAddressHierarchy", !.status = "ok",
                                 !.code = areaCode, !.draw = k, !.parts = r.v]
  /\ UNCHANGED today

\* the draws a call of generatePersonInfo(options) consumes
PersonDraws(options) ==
  {[NoDraws EXCEPT !.area = ka, !.year = ky, !.month = km, !.day = kd,
                   !.gender = kg] :
     ka \in (IF Truthy(options.areaCode) THEN {0} ELSE EndDraws),
     ky \in (IF Truthy(options.birthday) THEN {0} ELSE EndDraws),
     km \in (IF Truthy(options.birthday) THEN {0} ELSE EndDraws),
     kd \in (IF Truthy(options.birthday) THEN {0} ELSE EndDraws),
     kg \in (IF options.gender.t # "undefined" THEN {0} ELSE EndDraws)}

\* generator.generatePersonInfo(options)
GeneratePersonInfoCall ==
  /\ Idle
  /\ \E a \in {Undefined, JsStr(Str(110101)), JsStr(Str(420100))},
        b \in ExplicitBirthdays \cup {Undefined},
        x \in {Undefined, JsNum(1)} :
       LET options == [areaCode |-> a, birthday |-> b, gender |-> x, name |-> Undefined]
       IN  \E d \in PersonDraws(options) :
             \E r \in {GeneratePersonInfo(gen, options, d, today)} :
               /\ gen' = r.g
               /\ ret' = [NoRet EXCEPT !.op = "generatePersonInfo",
                                       !.status = Outcome(r), !.error = r.error,
                                       !.options = options,
                                       !.records = IF r.error = "" THEN <<r.v>> ELSE <<>>]
  /\ UNCHANGED today

\* generator.generatePersonInfoByAreaAndAge(areaName, age, options)
GeneratePersonInfoByAreaAndAgeCall ==
  /\ Idle
  /\ \E areaName \in PersonAreaNames, age \in AgeInputs, x \in {Undefined, JsNum(0)},
        kd \in EndDraws, km \in EndDraws, kb \in EndDraws :
       LET options == [areaCode |-> Undefined, birthday |-> Undefined, gender |-> x,
                       name |-> Undefined]
           d == [NoDraws EXCEPT !.district = kd, !.bmonth = km, !.bday = kb]
       IN  \E r \in {GeneratePersonInfoByAreaAndAge(gen, areaName, age, options, d, today)} :
             /\ gen' = r.g
             /\ ret' = [NoRet EXCEPT !.op = "generatePersonInfoByAreaAndAge",
                                     !.status = Outcome(r), !.error = r.error,
                                     !.options = options, !.areaName = areaName,
                                     !.age = age,
                                     !.records = IF r.error = "" THEN <<r.v>> ELSE <<>>]
  /\ UNCHANGED today

\* generator.generateBatch(count, options, progressCallback)
GenerateBatchCall ==
  /\ Idle
  /\ \E count \in CountInputs, hasCallback \in BOOLEAN,
        a \in {Undefined, JsStr(Str(420100))},
        b \in ExplicitBirthdays \cup {Undefined, JsStr(Str(199001))},
        x \in {Undefined, JsNum(1)}, k \in {0}, ks \in EndDraws :
       LET options == [areaCode |-> a, birthday |-> b, gender |-> x, name |-> Undefined]
           ds == [i \in 1..MaxCount |->
                    [NoDraws EXCEPT !.area = k, !.year = k, !.month = k, !.day = k,
                                    !.gender = ks, !.seq = IF i % 2 = 1 THEN ks ELSE k]]
       IN  \E r \in {GenerateBatch(gen, count, options, hasCallback, k, ds, today)} :
             /\ gen' = r.g
             /\ ret' = [NoRet EXCEPT !.op = "generateBatch", !.status = Outcome(r),
                                     !.error = r.error, !.options = options,
                                     !.count = count, !.records = r.v,
                                     !.hasCallback = hasCallback,
                                     !.progress = r.progress]
  /\ UNCHANGED today

\* generator.registerPlugin(type, plugin)
RegisterPluginCall ==
  /\ Idle
  /\ \E type \in TypeInputs :
       \E plugin \in PluginInputs(type) \cup {NotAFunction} :
         /\ IF type \in PluginTypes /\ gen.plugins[type].isNull
            THEN Cardinality({t \in PluginTypes : ~gen.plugins[t].isNull}) < MaxPlugins
            ELSE TRUE
         /\ \E r \in {RegisterPlugin(gen, type, plugin)} :
              /\ gen' = r.g
              /\ ret' = [NoRet EXCEPT !.op = "registerPlugin", !.status = Outcome(r),
                                      !.error = r.error, !.type = type,
                                      !.plugin = plugin]
  /\ UNCHANGED today

\* generator.removePlugin(type)
RemovePluginCall ==
  /\ Idle
  /\ \E type \in TypeInputs :
       /\ gen' = RemovePlugin(gen, type)
       /\ ret' = [NoRet EXCEPT !.op = "removePlugin", !.status = "ok", !.type = type]
  /\ UNCHANGED today

\* generator.generatePersonInfo(options) with the draws of the name, the e-mail
\* address and the address
GenerateProfileCall ==
  /\ Idle
  /\ \E a \in {Undefined, JsStr(Str(999999)), JsStr(Str(1234))},
        name \in NameInputs, d \in ProfileDraws :
       LET options == [areaCode |-> a, birthday |-> Undefined, gender |-> Undefined,
                       name |-> name]
       IN  \E r \in {GeneratePersonInfo(gen, options, d, today)} :
             /\ gen' = r.g
             /\ ret' = [NoRet EXCEPT !.op = "generatePersonInfo",
                                     !.status = Outcome(r), !.error = r.error,
                                     !.options = options, !.draws = d,
                                     !.records = IF r.error = "" THEN <<r.v>> ELSE <<>>]
  /\ UNCHANGED today

\* generator.generateBatch(1)
GenerateOneCall ==
  /\ Idle
  /\ \E r \in {GenerateBatch(gen, JsNum(1), NoOptions, FALSE, 0,
                              DrawStream(0, 1), today)} :
       /\ gen' = r.g
       /\ ret' = [NoRet EXCEPT !.op = "generateBatch", !.status = Outcome(r),
                               !.error = r.error, !.count = JsNum(1),
                               !.records = r.v, !.progress = r.progress]
  /\ UNCHANGED today

\* the caller takes the result
Return ==
  /\ ~Idle
  /\ ret' = NoRet
  /\ UNCHANGED <<gen, today>>

(***************************************************************************)
(* Specification of the codec: generateIdCard and its helpers               *)
(***************************************************************************)

\* the instance after construction with one of the given option values, on one
\* of the given days
InitWith(lazyLoads, precomputes, days) ==
  /\ \E lazyLoad \in lazyLoads, precomputeFuzzyMatch \in precomputes :
       gen = Construct(lazyLoad, precomputeFuzzyMatch)
  /\ today \in days
  /\ ret = NoRet

InitCodec == InitWith(BOOLEAN, {FALSE}, {[year |-> 2025, month |-> 6, day |-> 16]})

NextCodec ==
  \/ GenerateIdCardCall
  \/ GenerateSequenceCodeCall
  \/ ExtractInfoFromIdCardCall
  \/ Return

SpecCodec == InitCodec /\ [][NextCodec]_vars

\* generator.generateBatch(count, {}, progressCallback) with a count above the
\* size of one internal batch
GenerateLargeBatchCall ==
  /\ Idle
  /\ \E count \in LargeCounts, hasCallback \in BOOLEAN, seed \in {0} :
       \E r \in {GenerateBatch(gen, count, NoOptions, hasCallback, seed,
                               DrawStream(seed, count.n), today)} :
         /\ gen' = r.g
         /\ ret' = [NoRet EXCEPT !.op = "generateBatch", !.status = Outcome(r),
                                 !.error = r.error, !.count = count,
                                 !.hasCallback = hasCallback,
                                 !.records = r.v, !.progress = r.progress]
  /\ UNCHANGED today

(***************************************************************************)
(* Specification of the region resolver: name lookup and district resolution*)
(***************************************************************************)

InitResolve == InitWith(BOOLEAN, BOOLEAN, {[year |-> 2025, month |-> 6, day |-> 16]})

NextResolve ==
  \/ GetAreaCodeByNameCall
  \/ GetTownsByAreaCodeCall
  \/ GetAddressHierarchyCall
  \/ ResolveDistrictCodeCall
  \/ ResolveDistrictCodeAgainCall
  \/ Return

SpecResolve == InitResolve /\ [][NextResolve]_vars

(***************************************************************************)
(* Specification of the person records: single records and batches, on the *)
(* days of Todays                                                           *)
(***************************************************************************)

InitPerson == InitWith(BOOLEAN, BOOLEAN, Todays)

NextPerson ==
  \/ GetAddressHierarchyCall
  \/ GeneratePersonInfoCall
  \/ GeneratePersonInfoByAreaAndAgeCall
  \/ GenerateBatchCall
  \/ Return

SpecPerson == InitPerson /\ [][NextPerson]_vars

(***************************************************************************)
(* Specification of the batches: small ones with options, large ones without*)
(***************************************************************************)

InitBatch == InitWith({FALSE}, {FALSE}, {[year |-> 2025, month |-> 6, day |-> 16]})

NextBatch ==
  \/ GenerateBatchCall
  \/ GenerateLargeBatchCall
  \/ Return

SpecBatch == InitBatch /\ [][NextBatch]_vars

(***************************************************************************)
(* Specification of the plugins: registration and removal between calls of  *)
(* generatePersonInfo, generateBatch and the name lookup                    *)
(***************************************************************************)

InitProfile == InitWith({TRUE}, {FALSE}, {[year |-> 2025, month |-> 6, day |-> 16]})

NextProfile ==
  \/ RegisterPluginCall
  \/ RemovePluginCall
  \/ GenerateProfileCall
  \/ GenerateOneCall
  \/ GetAreaCodeByNameCall
  \/ Return

SpecProfile == InitProfile /\ [][NextProfile]_vars

(***************************************************************************)
(* Properties of the codec                                                  *)
(***************************************************************************)

\* the digits of an n-character decimal string read as a number
RECURSIVE Num(_)
Num(s) == IF s = <<>> THEN 0 ELSE 10 * Num(SubSeq(s, 1, Len(s) - 1)) + DigitVal(s[Len(s)])

\* a JS value that is a string of exactly n decimal digits
IsDigitString(v, n) == v.t = "string" /\ AllDigits(v.s, n)

\* C1: the 18th character of every number generateIdCard returns is
\* ID_CHECK_CODES[S mod 11], S being the sum of the first 17 digits times the
\* weights 7,9,10,5,8,4,2,1,6,3,7,9,10,5,8,4,2 and the table being
\* 1,0,X,9,8,7,6,5,4,3,2: recomputing the check sum matches the last character.
C1_CheckCode ==
  (ret.op = "generateIdCard" /\ ret.status = "ok") =>
    LET w == <<7, 9, 10, 5, 8, 4, 2, 1, 6, 3, 7, 9, 10, 5, 8, 4, 2>>
        t == <<"1", "0", "X", "9", "8", "7", "6", "5", "4", "3", "2">>
        S[i \in 0..17] == IF i = 0 THEN 0 ELSE S[i - 1] + DigitVal(ret.value[i]) * w[i]
    IN  /\ Len(ret.value) = 18
        /\ \A i \in 1..17 : IsDigit(ret.value[i])
        /\ ret.value[18] = t[(S[17] % 11) + 1]
        /\ ret.value[18] = CalculateCheckCode(SubSeq(ret.value, 1, 17))[1]

\* a number whose check character is "X" has been returned for a supplied
\* region code, birth date and gender
C1_Witness ==
  /\ ret.op = "generateIdCard"
  /\ ret.status = "ok"
  /\ IsDigitString(ret.options.areaCode, 6)
  /\ IsDigitString(ret.options.birthday, 8)
  /\ ret.options.gender.t = "number"
  /\ ret.value[18] = "X"

\* C2: for gender 0 and 1 and every draw, _generateSequenceCode returns three
\* digits that read as a number in 1..999 whose parity is the gender's, and
\* the 17th digit of a number generateIdCard returns for a given gender is odd
\* for 1 and even for 0.
C2_SequenceParity ==
  /\ ret.op = "_generateSequenceCode" =>
       /\ AllDigits(ret.value, 3)
       /\ Num(ret.value) \in 1..999
       /\ Num(ret.value) % 2 = ret.gender
  /\ (ret.op = "generateIdCard" /\ ret.status = "ok"
        /\ ret.options.gender.t = "number") =>
       DigitVal(ret.value[17]) % 2 = ret.options.gender.n

\* the lowest draw for a woman: 1 is odd, 1 - 1 = 0 is out of range, 2 is returned
C2_Witness ==
  /\ ret.op = "_generateSequenceCode"
  /\ ret.gender = 0
  /\ ret.draw = 0
  /\ ret.value = <<"0", "0", "2">>

\* C3: the number generateIdCard returns for a six-digit areaCode, an
\* eight-digit birthday and a gender is 18 characters long, starts with the
\* areaCode followed by the birthday, and _extractInfoFromIdCard reads from it
\* the year, month and day of that birthday.
C3_RoundTrip ==
  (/\ ret.op \in {"generateIdCard", "_extractInfoFromIdCard"}
   /\ ret.status = "ok"
   /\ IsDigitString(ret.options.areaCode, 6)
   /\ IsDigitString(ret.options.birthday, 8)) =>
    /\ Len(ret.value) = 18
    /\ SubSeq(ret.value, 1, 6) = ret.options.areaCode.s
    /\ SubSeq(ret.value, 7, 14) = ret.options.birthday.s
    /\ ret.op = "_extractInfoFromIdCard" =>
         /\ ret.info.birthYear = Num(SubSeq(ret.options.birthday.s, 1, 4))
         /\ ret.info.birthMonth = Num(SubSeq(ret.options.birthday.s, 5, 6))
         /\ ret.info.birthDay = Num(SubSeq(ret.options.birthday.s, 7, 8))

\* the number generated for Wuhan and 29 February 2000 has been decoded
C3_Witness ==
  /\ ret.op = "_extractInfoFromIdCard"
  /\ ret.options.areaCode = JsStr(Str(420100))
  /\ ret.options.birthday = JsStr(Str(20000229))
  /\ ret.info.birthYear = 2000
  /\ ret.info.birthMonth = 2
  /\ ret.info.birthDay = 29

\* C4: generateIdCard raises an error whenever the areaCode it is given is not
\* exactly six digits, the birthday it is given is not exactly eight digits or
\* the gender it is given is neither 0 nor 1, an empty value included.
C4_MalformedRaises ==
  (/\ ret.op = "generateIdCard"
   /\ \/ (ret.options.areaCode.t # "undefined" /\ ~IsDigitString(ret.options.areaCode, 6))
      \/ (ret.options.birthday.t # "undefined" /\ ~IsDigitString(ret.options.birthday, 8))
      \/ (ret.options.gender.t # "undefined"
            /\ ~(ret.options.gender.t = "number" /\ ret.options.gender.n \in {0, 1})))
    => ret.status = "throw"

\* generateIdCard({areaCode: ''}) has returned a number, its region code drawn
\* from the district index
C4_Witness ==
  /\ ret.op = "generateIdCard"
  /\ ret.options.areaCode = JsStr(<<>>)
  /\ ret.status = "ok"
  /\ \E i \in 1..Len(area) : SubSeq(ret.value, 1, 6) = area[i].code

(***************************************************************************)
(* Properties of the person records                                         *)
(***************************************************************************)

\* the age on the day now of someone born on the day with the digits yyyymmdd:
\* the difference of the years, less one while the birthday of the year is
\* still ahead
AgeOn(yyyymmdd, now) ==
  LET y == Num(SubSeq(yyyymmdd, 1, 4))
      md == Num(SubSeq(yyyymmdd, 5, 8))
  IN  IF now.month * 100 + now.day < md THEN now.year - y - 1 ELSE now.year - y

\* a concrete district d lies beneath the province-level or city-level code c
Under(d, c) ==
  /\ d.name # ShiXiaQu
  /\ SubSeq(d.code, 1, 2) = SubSeq(c, 1, 2)
  /\ SubSeq(c, 3, 4) # <<"0", "0">> => SubSeq(d.code, 3, 4) = SubSeq(c, 3, 4)

\* C5: the record generatePersonInfoByAreaAndAge(areaName, age) returns has
\* the requested age, whatever birth month and day are drawn.
C5_AgeAsRequested ==
  (ret.op = "generatePersonInfoByAreaAndAge" /\ ret.status = "ok") =>
    ret.records[1].age = ret.age.n

\* on 16 June 2025 a record asked for with age 30 has come back with age 29,
\* its birth date being 31 December 1995
C5_Witness ==
  /\ ret.op = "generatePersonInfoByAreaAndAge"
  /\ ret.status = "ok"
  /\ today = [year |-> 2025, month |-> 6, day |-> 16]
  /\ ret.age = JsNum(30)
  /\ ret.records[1].age = 29
  /\ SubSeq(ret.records[1].idCard, 7, 14) = Str(19951231)

\* C6: the age of every record is the current year less the birth year of its
\* number, less one exactly when today's month and day precede the birth month
\* and day; generateBatch with an explicit birthday reports the age
\* _extractInfoFromIdCard reads from the generated number.
C6_Age ==
  ret.status = "ok" =>
    \A i \in 1..Len(ret.records) :
      /\ ret.records[i].age = AgeOn(SubSeq(ret.records[i].idCard, 7, 14), today)
      /\ ret.records[i].age = ExtractInfoFromIdCard(ret.records[i].idCard, today).age
      /\ IsDigitString(ret.options.birthday, 8) =>
           ret.records[i].age = AgeOn(ret.options.birthday.s, today)

\* on 16 June 2025 a batch for the birthday 17 June 1990 holds two records of
\* age 34
C6_Witness ==
  /\ ret.op = "generateBatch"
  /\ ret.status = "ok"
  /\ today = [year |-> 2025, month |-> 6, day |-> 16]
  /\ ret.options.birthday = JsStr(Str(19900617))
  /\ Len(ret.records) = 2
  /\ ret.records[2].age = 34

\* C9: when the name handed to generatePersonInfoByAreaAndAge is indexed under
\* a province-level or city-level code that has a concrete district beneath
\* it, the region code of the generated number is the code of a concrete
\* district beneath that code, for an ordinary province as for a municipality.
C9_ResolvesBeneath ==
  (ret.op = "generatePersonInfoByAreaAndAge" /\ ret.status = "ok") =>
    \A i \in 1..Len(gen.cache.areaCodeByName) :
      LET c == gen.cache.areaCodeByName[i].v
      IN  (/\ gen.cache.areaCodeByName[i].k = ret.areaName.s
           /\ SubSeq(c, 5, 6) = <<"0", "0">>
           /\ \E j \in 1..Len(area) : Under(area[j], c)) =>
            \E j \in 1..Len(area) :
              /\ Under(area[j], c)
              /\ SubSeq(ret.records[1].idCard, 1, 6) = area[j].code

\* the number generated for the province name hu-bei-sheng carries the
\* province-level code 420000 as its region code
C9_Witness ==
  /\ ret.op = "generatePersonInfoByAreaAndAge"
  /\ ret.status = "ok"
  /\ ret.areaName = JsStr(<<"hu", "bei", "sheng">>)
  /\ SubSeq(ret.records[1].idCard, 1, 6) = Str(420000)

(***************************************************************************)
(* Properties of the region resolver                                        *)
(***************************************************************************)

\* the candidates of the district resolution for the code c: the concrete
\* districts of the municipality when c is of one of the four municipalities,
\* of the city of c otherwise
Candidate(d, c) ==
  /\ d.name # ShiXiaQu
  /\ SubSeq(d.code, 1, 2) = SubSeq(c, 1, 2)
  /\ \/ SubSeq(c, 1, 2) \in {<<"1", "1">>, <<"1", "2">>, <<"3", "1">>, <<"5", "0">>}
     \/ SubSeq(d.code, 3, 4) = SubSeq(c, 3, 4)

MunicipalLevel(c) == AllDigits(c, 6) /\ SubSeq(c, 5, 6) = <<"0", "0">>

C8_Idempotent ==
  ret.op = "_resolveDistrictCode" =>
    /\ (~MunicipalLevel(ret.code)
          \/ ~\E j \in 1..Len(area) : Candidate(area[j], ret.code)) =>
         ret.value = ret.code
    /\ ret.again => ret.value = ret.code

\* the district drawn for Wuhan has been resolved once more, with the draw
\* that would pick another district
C8_Witness ==
  /\ ret.op = "_resolveDistrictCode"
  /\ ret.again
  /\ ret.code = Str(420107)
  /\ ret.draw = 0
  /\ ret.value = Str(420107)

\* the first code that follows the key name in a bucket map, <<>> if none
First(m, name) ==
  IF \E i \in 1..Len(m) : m[i].k = name /\ Len(m[i].v) > 0
  THEN (m[CHOOSE i \in 1..Len(m) : m[i].k = name].v)[1]
  ELSE <<>>

Indexed(m, name) == \E i \in 1..Len(m) : m[i].k = name

\* C10: a call of _getAreaCodeByName returns the code the exact index holds
\* for the name; failing that the code the alias table holds, leaving the
\* fuzzy index as it was; failing that the first code of the prefix bucket;
\* failing that the first code of the character bucket; and null only when
\* all four miss.
C10_TierOrder ==
  [][(ret.status = "idle" /\ ret'.op = "_getAreaCodeByName") =>
       LET name == ret'.areaName.s
           index == gen'.cache.areaCodeByName
           fuzzy == gen'.cache.fuzzyAreaNameMap
       IN  IF Indexed(index, name)
           THEN /\ ~ret'.isNull
                /\ ret'.value = index[CHOOSE i \in 1..Len(index) : index[i].k = name].v
                /\ fuzzy = EnsureInitialized(gen).cache.fuzzyAreaNameMap
           ELSE IF Indexed(commonCities, name)
           THEN /\ ~ret'.isNull
                /\ ret'.value =
                     commonCities[CHOOSE i \in 1..Len(commonCities) :
                                    commonCities[i].k = name].v
                /\ fuzzy = EnsureInitialized(gen).cache.fuzzyAreaNameMap
           ELSE /\ ~fuzzy.isNull
                /\ IF First(fuzzy.prefix, name) # <<>>
                   THEN ~ret'.isNull /\ ret'.value = First(fuzzy.prefix, name)
                   ELSE IF First(fuzzy.include, name) # <<>>
                   THEN ~ret'.isNull /\ ret'.value = First(fuzzy.include, name)
                   ELSE ret'.isNull]_vars

\* the alias shang-hai, which the index does not hold, has been answered from
\* the alias table and the fuzzy index is still not built
C10_Witness ==
  /\ ret.op = "_getAreaCodeByName"
  /\ ret.areaName = JsStr(<<"shang", "hai">>)
  /\ ~ret.isNull
  /\ ret.value = Str(310000)
  /\ gen.cache.fuzzyAreaNameMap.isNull

\* the positions of the characters of name that have a non-empty bucket in
\* the character index m
CharHits(m, name) == {i \in 1..Len(name) : First(m, <<name[i]>>) # <<>>}

\* C11: a name that missed the exact index, the alias table and the prefix
\* bucket is answered with the first code of the character bucket of its first
\* character that has a non-empty bucket, and with null only when none of its
\* characters has one.
C11_CharacterTier ==
  (/\ ret.op = "_getAreaCodeByName"
   /\ ~Indexed(gen.cache.areaCodeByName, ret.areaName.s)
   /\ ~Indexed(commonCities, ret.areaName.s)
   /\ ~gen.cache.fuzzyAreaNameMap.isNull
   /\ First(gen.cache.fuzzyAreaNameMap.prefix, ret.areaName.s) = <<>>) =>
    LET include == gen.cache.fuzzyAreaNameMap.include
        hits == CharHits(include, ret.areaName.s)
    IN  IF hits = {} THEN ret.isNull
        ELSE /\ ~ret.isNull
             /\ ret.value =
                  First(include, <<ret.areaName.s[CHOOSE i \in hits :
                                                    \A j \in hits : i <= j]>>)

\* the name zz-yang, whose second character occurs in chao-yang-qu, has been
\* answered with null
C11_Witness ==
  /\ ret.op = "_getAreaCodeByName"
  /\ ret.areaName = JsStr(<<"zz", "yang">>)
  /\ ~gen.cache.fuzzyAreaNameMap.isNull
  /\ CharHits(gen.cache.fuzzyAreaNameMap.include, ret.areaName.s) = {2}
  /\ ret.isNull

\* the pairs (code, name) handed to _addAreaCodeMapping while the index is
\* built, in the order of the calls: provinces, then cities, then districts,
\* each city and district under its full name first and its own name second
NameOfProvince(p) ==
  IF \E i \in 1..Len(province) : province[i].province = p
  THEN province[CHOOSE i \in 1..Len(province) : province[i].province = p].name
  ELSE <<>>

NameOfCity(p, c) ==
  IF \E i \in 1..Len(city) : city[i].province = p /\ city[i].city = c
  THEN city[CHOOSE i \in 1..Len(city) : city[i].province = p /\ city[i].city = c].name
  ELSE <<>>

MappingCalls ==
  [i \in 1..Len(province) |-> [code |-> province[i].code, name |-> province[i].name]]
  \o [i \in 1..(2 * Len(city)) |->
        LET c == city[(i + 1) \div 2]
        IN  [code |-> c.code,
             name |-> IF i % 2 = 1 THEN NameOfProvince(c.province) \o c.name ELSE c.name]]
  \o [i \in 1..(2 * Len(area)) |->
        LET a == area[(i + 1) \div 2]
        IN  [code |-> a.code,
             name |-> IF i % 2 = 1
                      THEN NameOfProvince(a.province) \o NameOfCity(a.province, a.city)
                             \o a.name
                      ELSE a.name]]

\* C14: in the built index every name maps to the code, and every code to the
\* name, of the first call of _addAreaCodeMapping that mentioned it: no later
\* call changes an entry.
C14_FirstWriteWins ==
  gen.initialized =>
    \A i \in 1..Len(MappingCalls) :
      /\ ((\A j \in 1..(i - 1) : MappingCalls[j].name # MappingCalls[i].name) =>
            MapGet(gen.cache.areaCodeByName, MappingCalls[i].name) = MappingCalls[i].code)
      /\ ((\A j \in 1..(i - 1) : MappingCalls[j].code # MappingCalls[i].code) =>
            MapGet(gen.cache.nameByAreaCode, MappingCalls[i].code) = MappingCalls[i].name)

\* the code of Wuhan, first mapped to hu-bei-sheng-wu-han-shi, maps to
\* wu-han-shi in the built index
C14_Witness ==
  /\ gen.initialized
  /\ MappingCalls[3] = [code |-> Str(420100),
                        name |-> <<"hu", "bei", "sheng", "wu", "han", "shi">>]
  /\ MapGet(gen.cache.nameByAreaCode, Str(420100)) = <<"wu", "han", "shi">>
  /\ MapGet(gen.cache.areaCodeByName, <<"wu", "han", "shi">>) = Str(420100)

\* the townships of the data that belong to the district with the code c
TownsOf(c) ==
  SelectSeq(town, LAMBDA t : SubSeq(t.code, 1, 6) = c)

\* C13: _getTownsByAreaCode(districtCode) returns, in dataset order, the
\* townships of the data that belong to that district, and _getAddressHierarchy
\* ends with the name of one of them whenever the district has any.
C13_TownsOfDistrict ==
  /\ ret.op = "_getTownsByAreaCode" => ret.towns = TownsOf(ret.code)
  /\ (ret.op = "_getAddressHierarchy" /\ TownsOf(ret.code) # <<>>) =>
       /\ ret.parts # <<>>
       /\ \E i \in 1..Len(TownsOf(ret.code)) :
            ret.parts[Len(ret.parts)] = TownsOf(ret.code)[i].name

\* the townships of dong-cheng-qu, which has one in the data, have been asked
\* for and none has come back
C13_Witness ==
  /\ ret.op = "_getTownsByAreaCode"
  /\ ret.code = Str(110101)
  /\ Len(TownsOf(ret.code)) = 1
  /\ ret.towns = <<>>

\* the name the data gives the district with the code c
NameOfDistrict(c) ==
  area[CHOOSE i \in 1..Len(area) : area[i].code = c].name

IsDirect(c) ==
  SubSeq(c, 1, 2) \in {<<"1", "1">>, <<"1", "2">>, <<"3", "1">>, <<"5", "0">>}

\* the string s contains the string pattern
Occurs(s, pattern) ==
  \E i \in 1..(Len(s) - Len(pattern) + 1) : SubSeq(s, i, i + Len(pattern) - 1) = pattern

\* C20: _getAddressHierarchy(districtCode) returns the province name, then the
\* city name unless the province is one of the four municipalities, then the
\* district name unless it is shi-xia-qu, then at most one township of the
\* district; no fragment is empty.  The address of a person generated for
\* bei-jing contains the name of the municipality, the address of one
\* generated for wu-han contains hu-bei-sheng and wu-han-shi.
C20_Hierarchy ==
  /\ ret.op = "_getAddressHierarchy" =>
       LET c == ret.code
           base == <<NameOfProvince(SubSeq(c, 1, 2))>>
                   \o (IF IsDirect(c) THEN <<>>
                       ELSE <<NameOfCity(SubSeq(c, 1, 2), SubSeq(c, 3, 4))>>)
                   \o (IF NameOfDistrict(c) = <<"shi", "xia", "qu">> THEN <<>>
                       ELSE <<NameOfDistrict(c)>>)
       IN  /\ \/ ret.parts = base
              \/ \E i \in 1..Len(TownsOf(c)) :
                   ret.parts = Append(base, TownsOf(c)[i].name)
           /\ \A i \in 1..Len(ret.parts) : ret.parts[i] # <<>>
  /\ (ret.op = "generatePersonInfoByAreaAndAge" /\ ret.status = "ok") =>
       LET address == ret.records[1].address
       IN  /\ ret.areaName = JsStr(<<"bei", "jing">>) =>
                Occurs(address, <<"bei", "jing", "shi">>)
           /\ ret.areaName = JsStr(<<"wu", "han">>) =>
                /\ Occurs(address, <<"hu", "bei", "sheng">>)
                /\ Occurs(address, <<"wu", "han", "shi">>)

\* the hierarchy of the placeholder district of Wuhan is province and city
C20_Witness ==
  /\ ret.op = "_getAddressHierarchy"
  /\ ret.code = Str(420101)
  /\ ret.parts = <<<<"hu", "bei", "sheng">>, <<"wu", "han", "shi">>>>

\* C16: the birthDate of every record is digits 7-10 of its number, a hyphen,
\* digits 11-12, a hyphen and digits 13-14: ten characters of the form
\* YYYY-MM-DD.
C16_BirthDateFormat ==
  (ret.op \in {"generatePersonInfo", "generateBatch"} /\ ret.status = "ok") =>
    \A i \in 1..Len(ret.records) :
      ret.records[i].birthDate =
        SubSeq(ret.records[i].idCard, 7, 10) \o <<"-">>
          \o SubSeq(ret.records[i].idCard, 11, 12) \o <<"-">>
          \o SubSeq(ret.records[i].idCard, 13, 14)

\* a batch for the birthday 09900615 holds a record whose birthDate is 990-06-15
C16_Witness ==
  /\ ret.op = "generateBatch"
  /\ ret.status = "ok"
  /\ ret.options.birthday = JsStr(Pad(9900615, 8))
  /\ Len(ret.records) >= 1
  /\ SubSeq(ret.records[1].idCard, 7, 14) = Pad(9900615, 8)
  /\ ret.records[1].birthDate = <<"9", "9", "0", "-", "0", "6", "-", "1", "5">>

\* the sizes of the batches 0..(n - 1) of a call for count records, summed
RECURSIVE SumOfBatchSizes(_, _)
SumOfBatchSizes(count, n) ==
  IF n = 0 THEN 0
  ELSE SumOfBatchSizes(count, n - 1) + CurrentBatchSize(count, n - 1)

\* C15: generateBatch(count) returns exactly count records for every positive
\* count, above the size of one internal batch and not a multiple of it
\* included, and the sizes of its batches sum to count.
C15_BatchCount ==
  ret.op = "generateBatch" =>
    /\ ret.status = "ok" =>
         /\ Len(ret.records) = ret.count.n
         /\ SumOfBatchSizes(ret.count.n, Batches(ret.count.n)) = ret.count.n
    /\ (ret.count.t = "number" /\ ret.count.n > 0 /\ ret.options = NoOptions) =>
         ret.status = "ok"

\* a call for one record more than a batch holds has returned that many
C15_Witness ==
  /\ ret.op = "generateBatch"
  /\ ret.status = "ok"
  /\ ret.count = JsNum(1001)
  /\ Batches(ret.count.n) = 2
  /\ Len(ret.records) = 1001

(***************************************************************************)
(* Properties of the plugins and of the generated name, phone and e-mail    *)
(***************************************************************************)

\* the plugin of a type returns, without throwing, a value that the check of
\* the type accepts
Accepted(type, plugin) ==
  /\ ~plugin.isNull
  /\ ~plugin.throws
  /\ plugin.value.t = "string"
  /\ plugin.value.s # <<>>
  /\ type = "phoneGenerator" =>
       /\ Len(plugin.value.s) = 11
       /\ plugin.value.s[1] = "1"
       /\ plugin.value.s[2] \in {"3", "4", "5", "6", "7", "8", "9"}
       /\ \A i \in 3..11 : IsDigit(plugin.value.s[i])
  /\ type = "emailGenerator" => \E i \in 1..Len(plugin.value.s) : plugin.value.s[i] = "@"
  /\ type = "idCardGenerator" =>
       /\ Len(plugin.value.s) = 18
       /\ \A i \in 1..17 : IsDigit(plugin.value.s[i])
       /\ <<plugin.value.s[18]>> = CalculateCheckCode(SubSeq(plugin.value.s, 1, 17))

\* the types of the plugins registered on the instance
Registered(g) == {t \in PluginTypes : ~g.plugins[t].isNull}

\* the pinyin of the names handed to generatePersonInfo
PinyinOf(name) ==
  IF name = <<"li", "ming">> THEN <<"l", "i", "m", "i", "n", "g">> ELSE <<>>

\* C19: generatePersonInfo with options.name = N and no plugin registered
\* returns a record whose e-mail address contains the pinyin of N.
C19_EmailFromName ==
  (/\ ret.op = "generatePersonInfo"
   /\ ret.status = "ok"
   /\ ret.options.name.t = "string"
   /\ Registered(gen) = {}) =>
    Occurs(ret.records[1].email, PinyinOf(ret.options.name.s))

\* a record has been generated for the name li-ming without any plugin
C19_Witness ==
  /\ ret.op = "generatePersonInfo"
  /\ ret.status = "ok"
  /\ ret.options.name = JsStr(<<"li", "ming">>)
  /\ Registered(gen) = {}
  /\ Includes(ret.records[1].email, "@")

\* the name, phone or e-mail of a record is the value of the plugin of the
\* type where the plugin's value is accepted, and the default generator's
\* value for the draws otherwise
FromPluginOrDefault(plugins, rec, d) ==
  /\ rec.name = IF Accepted("nameGenerator", plugins["nameGenerator"])
                THEN plugins["nameGenerator"].value.s
                ELSE GenerateCustomName(0, d)
  /\ rec.phone = IF Accepted("phoneGenerator", plugins["phoneGenerator"])
                 THEN plugins["phoneGenerator"].value.s
                 ELSE MockPhone(d.phone, d.phoneRest)
  /\ rec.email = IF Accepted("emailGenerator", plugins["emailGenerator"])
                 THEN plugins["emailGenerator"].value.s
                 ELSE GenerateEmail(rec.name, d)

\* C17: a successful registerPlugin(type, plugin) makes plugin the plugin of
\* the type and leaves the other types as they are, a failed one and every
\* other call but removePlugin leave all of them; removePlugin(type) leaves
\* the type without a plugin and the other types as they are; and
\* generatePersonInfo takes name, phone and e-mail from the plugin that is
\* then registered for the type when its value is accepted, and from the
\* default generator otherwise.
C17_PluginInForce ==
  [][ /\ (ret'.op = "registerPlugin" /\ ret'.status = "ok") =>
           /\ ~gen'.plugins[ret'.type].isNull
           /\ gen'.plugins[ret'.type].throws = ret'.plugin.throws
           /\ gen'.plugins[ret'.type].value = ret'.plugin.value
           /\ \A t \in PluginTypes \ {ret'.type} : gen'.plugins[t] = gen.plugins[t]
      /\ (ret'.op = "removePlugin" /\ ret'.type \in PluginTypes) =>
           /\ gen'.plugins[ret'.type].isNull
           /\ \A t \in PluginTypes \ {ret'.type} : gen'.plugins[t] = gen.plugins[t]
      /\ ~(\/ ret'.op = "registerPlugin" /\ ret'.status = "ok"
           \/ ret'.op = "removePlugin" /\ ret'.type \in PluginTypes) =>
           gen'.plugins = gen.plugins
      /\ (ret.status = "idle" /\ ret'.op = "generatePersonInfo" /\ ret'.status = "ok") =>
           FromPluginOrDefault(gen.plugins, ret'.records[1], ret'.draws)
    ]_vars

\* a record bears the name of the registered name plugin and a default phone
\* number, an e-mail plugin being registered too and no phone plugin
C17_Witness ==
  /\ ret.op = "generatePersonInfo"
  /\ ret.status = "ok"
  /\ gen.plugins["nameGenerator"].value = JsStr(<<"wang", "fang2">>)
  /\ Accepted("emailGenerator", gen.plugins["emailGenerator"])
  /\ gen.plugins["phoneGenerator"].isNull
  /\ ret.records[1].name = <<"wang", "fang2">>
  /\ ret.records[1].email = gen.plugins["emailGenerator"].value.s
  /\ ret.records[1].phone = MockPhone(ret.draws.phone, ret.draws.phoneRest)

\* the family names of the default name generator
Surnames == {COMMON_SURNAMES[i] : i \in 1..Len(COMMON_SURNAMES)}

\* C18: a registered plugin of any of the five types that throws or returns a
\* value its type's check rejects never makes generatePersonInfo fail: the
\* call throws for its options alone, and the field of such a plugin bears a
\* value of the default generator, not the plugin's.
C18_PluginFailureIsContained ==
  ret.op = "generatePersonInfo" =>
    /\ ret.status = "throw" =>
         /\ ret.error = ValidateIdCardOptions(ret.options)
         /\ ret.error # ""
    /\ ret.status = "ok" =>
         LET rec == ret.records[1]
             failing(t) == ~gen.plugins[t].isNull /\ ~Accepted(t, gen.plugins[t])
         IN  /\ failing("nameGenerator") =>
                  /\ Len(rec.name) \in {2, 3}
                  /\ rec.name[1] \in Surnames
             /\ failing("phoneGenerator") =>
                  /\ Len(rec.phone) = 11
                  /\ rec.phone[1] = "1"
                  /\ rec.phone[2] \in {"3", "4", "5", "6", "7", "8", "9"}
                  /\ \A i \in 3..11 : IsDigit(rec.phone[i])
             /\ failing("emailGenerator") =>
                  /\ rec.email = GenerateEmail(rec.name, ret.draws)
                  /\ \E i \in 1..Len(rec.email) : rec.email[i] = "@"
             /\ failing("addressGenerator") =>
                  /\ rec.address # <<>>
                  /\ \A i \in 1..Len(rec.address) : rec.address[i] # ""
             /\ failing("idCardGenerator") =>
                  /\ Len(rec.idCard) = 18
                  /\ \A i \in 1..17 : IsDigit(rec.idCard[i])
                  /\ <<rec.idCard[18]>> = CalculateCheckCode(SubSeq(rec.idCard, 1, 17))
                  /\ rec.idCard # gen.plugins["idCardGenerator"].value.s

\* a record has been generated while the name plugin throws and the identity
\* number plugin returns a number of 17 digits
C18_Witness ==
  /\ ret.op = "generatePersonInfo"
  /\ ret.status = "ok"
  /\ gen.plugins["nameGenerator"].throws
  /\ gen.plugins["idCardGenerator"].value = JsStr(SubSeq(PluginIdCard, 1, 17))
  /\ ret.records[1].name[1] \in Surnames
  /\ Len(ret.records[1].idCard) = 18

\* what _getAreaCodeByName answers on an instance constructed with its data
\* loaded and its fuzzy index built, for each name handed to the lookup
ReferenceLookup ==
  [n \in {x \in AreaNameInputs : x.t = "string"} |->
     LET r == GetAreaCodeByName(Construct(FALSE, TRUE), n.s)
     IN  [isNull |-> r.isNull, v |-> r.v]]

\* C12: _getAreaCodeByName answers for a name what it answers for it on any
\* instance, whichever calls of generatePersonInfo and generateBatch (and with
\* them generateIdCard), registrations and removals of plugins and earlier
\* lookups, the one that builds the fuzzy index included, came before; so any
\* two calls for a name on an instance agree.
C12_LookupDeterministic ==
  ret.op = "_getAreaCodeByName" =>
    /\ ret.isNull = ReferenceLookup[ret.areaName].isNull
    /\ ret.value = ReferenceLookup[ret.areaName].v

\* a name of the character tier is looked up after a batch was generated and
\* a plugin was registered
C12_Witness ==
  /\ ret.op = "_getAreaCodeByName"
  /\ ret.areaName = JsStr(<<"yang">>)
  /\ ~ret.isNull
  /\ ~gen.cache.randomAreaCodes.isNull
  /\ Registered(gen) # {}

(***************************************************************************)
(* Properties of the validation of requests                                 *)
(***************************************************************************)

\* C21: generatePersonInfoByAreaAndAge throws, and returns no record, for an
\* empty or missing area name and for an age that is undefined, below 0 or
\* above 120; generateBatch throws for a count that is no positive integer,
\* with no record generated and no progress reported.
C21_OutOfRangeRejected ==
  /\ (/\ ret.op = "generatePersonInfoByAreaAndAge"
      /\ \/ ret.areaName.t = "undefined"
         \/ ret.areaName = JsStr(<<>>)
         \/ ret.age.t = "undefined"
         \/ ret.age.n < 0
         \/ ret.age.n > 120) =>
       /\ ret.status = "throw"
       /\ ret.records = <<>>
  /\ (/\ ret.op = "generateBatch"
      /\ ~(ret.count.t = "number" /\ ret.count.n >= 1)) =>
       /\ ret.status = "throw"
       /\ ret.records = <<>>
       /\ ret.progress = <<>>

\* generateBatch(2.5, options, callback) has thrown
C21_Witness ==
  /\ ret.op = "generateBatch"
  /\ ret.count = JsHalf(2)
  /\ ret.status = "throw"
  /\ ret.error = "count"

(***************************************************************************)
(* Properties of the progress reports                                       *)
(***************************************************************************)

\* ceil(count / min(count, 1000))
BatchesOf(count) ==
  LET size == IF count < 1000 THEN count ELSE 1000
  IN  (count + size - 1) \div size

\* C22: generateBatch(count, options, cb) invokes cb once per internal batch,
\* ceil(count / min(count, 1000)) times in all, each time after the records of
\* that batch were generated; the values it reports increase strictly, lie in
\* (0, 1], and the last of them is 1.  Without a callback nothing is reported.
C22_Progress ==
  (ret.op = "generateBatch" /\ ret.status = "ok") =>
    LET p == ret.progress
        n == ret.count.n
        size == IF n < 1000 THEN n ELSE 1000
    IN  IF ~ret.hasCallback THEN p = <<>>
        ELSE /\ Len(p) = BatchesOf(n)
             /\ \A i \in 1..Len(p) :
                  /\ 0 < p[i].value.num
                  /\ p[i].value.num <= p[i].value.den
                  /\ p[i].done = (IF i * size < n THEN i * size ELSE n)
             /\ \A i \in 1..(Len(p) - 1) :
                  p[i].value.num * p[i + 1].value.den
                    < p[i + 1].value.num * p[i].value.den
             /\ p[Len(p)].value.num = p[Len(p)].value.den

\* a batch of two full internal batches and one record has reported three
\* values, the second of them after 2000 records
C22_Witness ==
  /\ ret.op = "generateBatch"
  /\ ret.status = "ok"
  /\ ret.hasCallback
  /\ ret.count = JsNum(2001)
  /\ Len(ret.progress) = 3
  /\ ret.progress[2].done = 2000
  /\ ret.progress[2].value = [num |-> 2000, den |-> 2001]

\* p is a prefix of the name s
IsPrefix(p, s) == Len(p) <= Len(s) /\ SubSeq(s, 1, Len(p)) = p

\* the positions of the index m whose name starts with name
PrefixHits(m, name) == {i \in 1..Len(m) : IsPrefix(name, m[i].k)}

\* C23: a name of one to three characters that missed the exact index and the
\* alias table and is a prefix of an indexed name is answered with the code of
\* the first such name in the insertion order of the index; and the built
\* prefix index holds, for every indexed name and each of its prefixes of
\* length 1 to min(3, length), the code of the name in the bucket of the
\* prefix, no bucket holding a code twice.
C23_PrefixTier ==
  LET name == ret.areaName.s
      index == gen.cache.areaCodeByName
      fuzzy == gen.cache.fuzzyAreaNameMap
      hits == PrefixHits(index, name)
  IN  /\ (/\ ret.op = "_getAreaCodeByName"
          /\ ret.areaName.t = "string"
          /\ Len(name) \in 1..3
          /\ ~Indexed(index, name)
          /\ ~Indexed(commonCities, name)
          /\ hits # {}) =>
           /\ ~ret.isNull
           /\ ret.value = index[CHOOSE i \in hits : \A j \in hits : i <= j].v
      /\ ~fuzzy.isNull =>
           /\ \A i \in 1..Len(index) :
                \A n \in 1..Min(3, Len(index[i].k)) :
                  \E b \in 1..Len(fuzzy.prefix) :
                    /\ fuzzy.prefix[b].k = SubSeq(index[i].k, 1, n)
                    /\ \E c \in 1..Len(fuzzy.prefix[b].v) :
                         fuzzy.prefix[b].v[c] = index[i].v
           /\ \A b \in 1..Len(fuzzy.prefix) :
                \A c, d \in 1..Len(fuzzy.prefix[b].v) :
                  fuzzy.prefix[b].v[c] = fuzzy.prefix[b].v[d] => c = d

\* the name hu, a prefix of hu-bei-sheng and of the full names of Wuhan and
\* its districts, has been answered with the code of the province
C23_Witness ==
  /\ ret.op = "_getAreaCodeByName"
  /\ ret.areaName = JsStr(<<"hu">>)
  /\ ~Indexed(gen.cache.areaCodeByName, <<"hu">>)
  /\ Cardinality(PrefixHits(gen.cache.areaCodeByName, <<"hu">>)) > 1
  /\ ~ret.isNull
  /\ ret.value = Str(420000)

\* the district d of the data is eligible for the municipal-level code c: its
\* province field is the first two digits of c, its city field digits 3-4 of c
\* unless the province is one of the four municipalities, and it is not named
\* shi-xia-qu
Eligible(d, c) ==
  /\ d.province = SubSeq(c, 1, 2)
  /\ \/ SubSeq(c, 1, 2) \in {Str(11), Str(12), Str(31), Str(50)}
     \/ d.city = SubSeq(c, 3, 4)
  /\ d.name # ShiXiaQu

\* C24: a code that _resolveDistrictCode returns and that differs from its
\* input is the code of a district of the data whose province field is the
\* first two digits of the input, whose city field is digits 3-4 of the input
\* unless the province is 11, 12, 31 or 50, and which is not named shi-xia-qu;
\* and for every such district of a municipal-level input there is a draw
\* with which the call returns it.
C24_ResolvedWithinInput ==
  ret.op = "_resolveDistrictCode" =>
    /\ ret.value # ret.code =>
         \E j \in 1..Len(area) :
           area[j].code = ret.value /\ Eligible(area[j], ret.code)
    /\ MunicipalLevel(ret.code) =>
         \A j \in 1..Len(area) :
           Eligible(area[j], ret.code) =>
             \E k \in AllDraws : ResolveDistrictCode(ret.code, k) = area[j].code

\* the code of Wuhan, whose first district is named shi-xia-qu, has been
\* resolved with the lowest draw to jiang-an2-qu
C24_Witness ==
  /\ ret.op = "_resolveDistrictCode"
  /\ ~ret.again
  /\ ret.code = Str(420100)
  /\ ret.draw = 0
  /\ ret.value = Str(420102)

(***************************************************************************)
(* Specification of the public operations on an instance constructed with   *)
(* any lazyLoad and precomputeFuzzyMatch                                    *)
(***************************************************************************)

InitPublic == InitWith(BOOLEAN, BOOLEAN, {[year |-> 2025, month |-> 6, day |-> 16]})

NextPublic ==
  \/ GenerateIdCardCall
  \/ GeneratePersonInfoCall
  \/ GeneratePersonInfoByAreaAndAgeCall
  \/ GenerateBatchCall
  \/ Return

SpecPublic == InitPublic /\ [][NextPublic]_vars

\* the hierarchy maps and the two maps of the region code index
Hierarchy(g) ==
  <<g.provinceMap, g.cityMap, g.areaMap, g.townMap,
    g.cache.areaCodeByName, g.cache.nameByAreaCode>>

\* C25: however the instance was constructed and whatever public operations
\* follow, the hierarchy maps and the region code index are built at most
\* once and the fuzzy index is built at most once, and once the hierarchy is
\* loaded no operation changes provinceMap, cityMap, areaMap, townMap,
\* areaCodeByName or nameByAreaCode.
C25_BuiltOnce ==
  /\ [](gen.builds.hierarchy <= 1 /\ gen.builds.fuzzy <= 1)
  /\ [][gen.initialized => Hierarchy(gen') = Hierarchy(gen)]_vars

\* a batch has been generated on an instance that was constructed eagerly
\* with the fuzzy index precomputed: both were built once, by the constructor
C25_Witness ==
  /\ ret.op = "generateBatch"
  /\ ret.status = "ok"
  /\ ~gen.options.lazyLoad
  /\ gen.options.precomputeFuzzyMatch
  /\ gen.builds = [hierarchy |-> 1, fuzzy |-> 1]

(***************************************************************************)
(* The hierarchy load over any reference data.  _getProvinceName calls      *)
(* _ensureInitialized, and through it _initData, when the instance is not   *)
(* initialized and the province map lacks the code; the frames of _initData *)
(* that are active are counted, and the frame that would exceed StackLimit  *)
(* is the one at which the engine throws its RangeError.                    *)
(***************************************************************************)

\* the number of frames of _initData the call stack has room for
StackLimit == 3

\* a city and a district whose province code no province of the table has
OrphanCity ==
  [code |-> Str(990100), name |-> <<"zz", "shi">>,
   province |-> Str(99), city |-> Pad(1, 2)]

OrphanArea ==
  [code |-> Str(990101), name |-> <<"zz", "qu">>,
   province |-> Str(99), city |-> Pad(1, 2), area |-> Pad(1, 2)]

\* the reference data a module may be loaded with, by name
DataNames == {"reference", "orphanCity", "orphanArea", "orphanBoth"}

Data(n) ==
  [province |-> province,
   city |-> IF n \in {"orphanCity", "orphanBoth"} THEN <<OrphanCity>> \o city ELSE city,
   area |-> IF n \in {"orphanArea", "orphanBoth"} THEN <<OrphanArea>> \o area ELSE area,
   town |-> town]

\* what a method of the load leaves: the instance, the error thrown ("" when
\* it returned), its value and the number of times _initData was entered
Loaded(g, v, n) == [g |-> g, error |-> "", v |-> v, entries |-> n]

StackExhausted(g, n) == [g |-> g, error |-> "RangeError", v |-> <<>>, entries |-> n]

RECURSIVE InitDataOn(_, _, _)

\* _ensureInitialized() with depth frames of _initData active
EnsureInitializedOn(data, g, depth) ==
  IF ~g.initialized THEN InitDataOn(data, g, depth) ELSE Loaded(g, <<>>, 0)

\* _getProvinceName(provinceCode) with depth frames of _initData active
GetProvinceNameOn(data, g, provinceCode, depth) ==
  IF ~g.initialized /\ MapHas(g.provinceMap, provinceCode)
  THEN Loaded(g, MapGet(g.provinceMap, provinceCode).name, 0)
  ELSE Let(EnsureInitializedOn(data, g, depth), LAMBDA r :
         IF r.error # "" THEN r
         ELSE Loaded(r.g, IF MapHas(r.g.provinceMap, provinceCode)
                          THEN MapGet(r.g.provinceMap, provinceCode).name
                          ELSE <<>>, r.entries))

\* _getCityInfo(provinceCode, cityCode): both branches read the city map
GetCityInfoOn(data, g, provinceCode, cityCode, depth) ==
  IF ~g.initialized
  THEN Loaded(g, GetCityInfo(g, provinceCode, cityCode), 0)
  ELSE Let(EnsureInitializedOn(data, g, depth), LAMBDA r :
         IF r.error # "" THEN r
         ELSE Loaded(r.g, GetCityInfo(r.g, provinceCode, cityCode), r.entries))

\* _buildProvinceMaps() over data, from the i-th province on
RECURSIVE ProvincesOn(_, _, _)
ProvincesOn(data, g, i) ==
  IF i > Len(data.province) THEN g
  ELSE Let(AddProvince(g, data.province[i]), LAMBDA g1 : ProvincesOn(data, g1, i + 1))

\* _buildCityMaps() over data, from the i-th city on
RECURSIVE CitiesOn(_, _, _, _)
CitiesOn(data, g, i, depth) ==
  IF i > Len(data.city) THEN Loaded(g, <<>>, 0)
  ELSE
    Let(data.city[i], LAMBDA c :
    Let([g EXCEPT !.cityMap =
           MapSet(@, c.province, MapSet(SubMap(@, c.province), c.city, c))],
        LAMBDA g1 :
    Let(GetProvinceNameOn(data, g1, c.province, depth), LAMBDA r :
      IF r.error # "" THEN r
      ELSE
        Let([r.g EXCEPT !.cache =
               AddAreaCodeMapping(AddAreaCodeMapping(@, c.code, r.v \o c.name),
                                  c.code, c.name)],
            LAMBDA g2 :
        Let(CitiesOn(data, g2, i + 1, depth), LAMBDA rest :
          [rest EXCEPT !.entries = @ + r.entries])))))

\* _buildAreaMaps() over data, from the i-th district on
RECURSIVE AreasOn(_, _, _, _)
AreasOn(data, g, i, depth) ==
  IF i > Len(data.area) THEN Loaded(g, <<>>, 0)
  ELSE
    Let(data.area[i], LAMBDA a :
    Let([g EXCEPT !.areaMap = SetArea(@, a)], LAMBDA g1 :
    Let(GetProvinceNameOn(data, g1, a.province, depth), LAMBDA r :
      IF r.error # "" THEN r
      ELSE
        Let(GetCityInfoOn(data, r.g, a.province, a.city, depth), LAMBDA ci :
          IF ci.error # "" THEN [ci EXCEPT !.entries = @ + r.entries]
          ELSE
            Let([ci.g EXCEPT !.cache =
                   AddAreaCodeMapping(
                     AddAreaCodeMapping(@, a.code,
                       r.v \o (IF ci.v.isNull THEN <<>> ELSE ci.v.v.name) \o a.name),
                     a.code, a.name)],
                LAMBDA g2 :
            Let(AreasOn(data, g2, i + 1, depth), LAMBDA rest :
              [rest EXCEPT !.entries = @ + r.entries + ci.entries]))))))

\* _buildTownMaps() over data, from the i-th township on
RECURSIVE TownsOn(_, _, _)
TownsOn(data, g, i) ==
  IF i > Len(data.town) THEN g
  ELSE Let(AddTown(g, data.town[i]), LAMBDA g1 : TownsOn(data, g1, i + 1))

\* _initData() over data with depth frames of _initData active already
InitDataOn(data, g, depth) ==
  IF g.initialized THEN Loaded(g, <<>>, 0)
  ELSE IF depth >= StackLimit THEN StackExhausted(g, 0)
  ELSE
    Let(CitiesOn(data, ProvincesOn(data, g, 1), 1, depth + 1), LAMBDA r2 :
      IF r2.error # "" THEN [r2 EXCEPT !.entries = @ + 1]
      ELSE
        Let(AreasOn(data, r2.g, 1, depth + 1), LAMBDA r3 :
          IF r3.error # "" THEN [r3 EXCEPT !.entries = @ + r2.entries + 1]
          ELSE
            Loaded([TownsOn(data, r3.g, 1) EXCEPT !.initialized = TRUE,
                                                  !.builds.hierarchy = @ + 1],
                   <<>>, r2.entries + r3.entries + 1)))

\* province codes handed to _getProvinceName, and city codes to _getCityInfo
ProvinceCodeInputs == {Str(11), Str(42), Str(99), Str(31), <<>>}

CityCodeInputs == {Pad(1, 2), Pad(2, 2), Pad(0, 2)}

\* generator._initData(), as the constructor and _ensureInitialized call it
InitDataCall ==
  /\ \E r \in {InitDataOn(Data(ret.data), gen, 0)} :
       /\ gen' = r.g
       /\ ret' = [NoRet EXCEPT !.data = ret.data, !.op = "_initData",
                               !.status = Outcome(r), !.error = r.error,
                               !.entries = r.entries]
  /\ UNCHANGED today

\* generator._getProvinceName(provinceCode)
GetProvinceNameCall ==
  /\ \E provinceCode \in ProvinceCodeInputs :
       \E r \in {GetProvinceNameOn(Data(ret.data), gen, provinceCode, 0)} :
         /\ gen' = r.g
         /\ ret' = [NoRet EXCEPT !.data = ret.data, !.op = "_getProvinceName",
                                 !.status = Outcome(r), !.error = r.error,
                                 !.code = provinceCode, !.value = r.v,
                                 !.entries = r.entries]
  /\ UNCHANGED today

\* generator._getCityInfo(provinceCode, cityCode)
GetCityInfoCall ==
  /\ \E provinceCode \in ProvinceCodeInputs, cityCode \in CityCodeInputs :
       \E r \in {GetCityInfoOn(Data(ret.data), gen, provinceCode, cityCode, 0)} :
         /\ gen' = r.g
         /\ ret' = [NoRet EXCEPT !.data = ret.data, !.op = "_getCityInfo",
                                 !.status = Outcome(r), !.error = r.error,
                                 !.code = provinceCode \o cityCode,
                                 !.isNull = IF r.error = "" THEN r.v.isNull ELSE FALSE,
                                 !.value = IF r.error = "" THEN r.v.v.code ELSE <<>>,
                                 !.entries = r.entries]
  /\ UNCHANGED today

(***************************************************************************)
(* Specification of the load: a lazily constructed instance of a module     *)
(* loaded with any of the reference data                                    *)
(***************************************************************************)

InitLoad ==
  /\ gen = NewInstance(TRUE, FALSE)
  /\ today = [year |-> 2025, month |-> 6, day |-> 16]
  /\ \E n \in DataNames : ret = [NoRet EXCEPT !.data = n]

NextLoad ==
  \/ InitDataCall
  \/ GetProvinceNameCall
  \/ GetCityInfoCall

SpecLoad == InitLoad /\ [][NextLoad]_vars

\* C26: _getProvinceName of a code that no province of the data has returns
\* the empty string, _getCityInfo of a city that the data does not have
\* returns null, and _initData returns having been entered at most once,
\* whatever the reference data and whether or not the instance is loaded.
C26_UnknownNeverFails ==
  LET data == Data(ret.data)
  IN  /\ (/\ ret.op = "_getProvinceName"
          /\ \A i \in 1..Len(data.province) : data.province[i].province # ret.code) =>
           ret.status = "ok" /\ ret.value = <<>>
      /\ (/\ ret.op = "_getCityInfo"
          /\ \A i \in 1..Len(data.city) :
               data.city[i].province \o data.city[i].city # ret.code) =>
           ret.status = "ok" /\ ret.isNull
      /\ ret.op = "_initData" => ret.status = "ok" /\ ret.entries <= 1

\* _initData has run on the data with a city of the unknown province 99: it
\* was entered as often as the stack has room and threw the RangeError
C26_Witness ==
  /\ ret.op = "_initData"
  /\ ret.data = "orphanCity"
  /\ ret.status = "throw"
  /\ ret.error = "RangeError"
  /\ ret.entries = StackLimit
  /\ ~gen.initialized

(***************************************************************************)
(* Specification of the birth dates: _getRandomBirthday and                 *)
(* _getBirthdayFromAge over draws that reach every year, month and day      *)
(***************************************************************************)

\* the least draw for which Math.floor(Math.random() * n) is i
DrawFor(i, n) == (i * RandDen + n - 1) \div n

YearDraws == {DrawFor(y, 2005 - 1950 + 1) : y \in 0..(2005 - 1950)} \cup {RandDen - 1}

MonthDraws == {DrawFor(m, 12) : m \in 0..11} \cup {RandDen - 1}

DayDraws ==
  {DrawFor(d, n) : d \in 0..27, n \in 28..31} \cup {DrawFor(n - 1, n) : n \in 28..31}
    \cup {DrawFor(28, 30), DrawFor(28, 31), DrawFor(29, 31), RandDen - 1}

\* ages handed to _getBirthdayFromAge: with the clock in 2024 or 2025 they give
\* the years 1900, 2000, 2004 and 2024 among others
BirthAges == {0, 1, 20, 21, 24, 25, 100, 124, 125}

\* generator._getRandomBirthday()
GetRandomBirthdayCall ==
  /\ Idle
  /\ \E kYear \in YearDraws, kMonth \in MonthDraws, kDay \in DayDraws :
       ret' = [NoRet EXCEPT !.op = "_getRandomBirthday", !.status = "ok",
                            !.value = GetRandomBirthday(kYear, kMonth, kDay)]
  /\ UNCHANGED <<gen, today>>

\* generator._getBirthdayFromAge(age)
GetBirthdayFromAgeCall ==
  /\ Idle
  /\ \E age \in BirthAges, kMonth \in MonthDraws, kDay \in DayDraws :
       ret' = [NoRet EXCEPT !.op = "_getBirthdayFromAge", !.status = "ok",
                            !.age = JsNum(age),
                            !.value = GetBirthdayFromAge(today, age, kMonth, kDay)]
  /\ UNCHANGED <<gen, today>>

InitBirthday == InitWith({FALSE}, {FALSE}, Todays)

NextBirthday ==
  \/ GetRandomBirthdayCall
  \/ GetBirthdayFromAgeCall
  \/ Return

SpecBirthday == InitBirthday /\ [][NextBirthday]_vars

\* the number of days of the month m of the year y in the Gregorian calendar
GregorianDays(y, m) ==
  IF m = 2
  THEN (IF (y % 4 = 0 /\ y % 100 # 0) \/ y % 400 = 0 THEN 29 ELSE 28)
  ELSE IF m \in {4, 6, 9, 11} THEN 30 ELSE 31

\* the date d, a year followed by two digits of month and two of day, is a
\* date of the Gregorian calendar in the year y
DateOfYear(d, y) ==
  /\ Len(d) = Len(Str(y)) + 4
  /\ SubSeq(d, 1, Len(d) - 4) = Str(y)
  /\ AllDigits(SubSeq(d, Len(d) - 3, Len(d)), 4)
  /\ LET m == ParseInt(SubSeq(d, Len(d) - 3, Len(d) - 2))
         day == ParseInt(SubSeq(d, Len(d) - 1, Len(d)))
     IN  m \in 1..12 /\ day \in 1..GregorianDays(y, m)

\* C27: every date of _getRandomBirthday is a date of the Gregorian calendar
\* in a year of 1950..2005, with month 1..12 and day 1..the length of the
\* month, February having 29 days exactly in the years divisible by 4 and not
\* by 100, or by 400; and every date of _getBirthdayFromAge is such a date of
\* the year currentYear - age, so that 29 February 1900 is never produced.
C27_ValidDate ==
  /\ ret.op = "_getRandomBirthday" =>
       \E y \in 1950..2005 : DateOfYear(ret.value, y)
  /\ ret.op = "_getBirthdayFromAge" =>
       /\ DateOfYear(ret.value, today.year - ret.age.n)
       /\ ret.value # Str(1900) \o Pad(2, 2) \o Pad(29, 2)

\* _getRandomBirthday has produced 29 February 2000
C27_Witness ==
  /\ ret.op = "_getRandomBirthday"
  /\ ret.value = Str(2000) \o Pad(2, 2) \o Pad(29, 2)

\* the 17th character of an identity number is an odd digit
SeventeenthOdd(idCard) ==
  /\ Len(idCard) >= 17
  /\ IsDigit(idCard[17])
  /\ ParseInt(<<idCard[17]>>) % 2 = 1

\* C28: in every record that generatePersonInfo, generatePersonInfoByAreaAndAge
\* or generateBatch returns, whatever plugins are registered, the gender is
\* male exactly when the 17th digit of the idCard of the record is odd, and
\* female exactly when it is even.
C28_GenderMatchesIdCard ==
  (/\ ret.op \in {"generatePersonInfo", "generatePersonInfoByAreaAndAge", "generateBatch"}
   /\ ret.status = "ok") =>
    \A i \in 1..Len(ret.records) :
      /\ ret.records[i].gender \in {"male", "female"}
      /\ ret.records[i].gender = "male" <=> SeventeenthOdd(ret.records[i].idCard)

\* with a registered plugin that returns the number of a woman,
\* generatePersonInfo has drawn the gender 1 and returned a record of a man
\* with the number of the plugin
C28_Witness ==
  /\ ret.op = "generatePersonInfo"
  /\ ret.status = "ok"
  /\ ~gen.plugins["idCardGenerator"].isNull
  /\ RandRound(ret.draws.gender) = 1
  /\ ret.records[1].idCard = PluginIdCard
  /\ ~SeventeenthOdd(PluginIdCard)
  /\ ret.records[1].gender = "male"

\* C29: every record of generateBatch is the record generatePersonInfo builds
\* from the same options, plugins and draws; with a registered idCardGenerator
\* plugin whose number is valid, the idCard of every record of the batch is
\* the number of the plugin.
C29_BatchSamePipeline ==
  (ret.op = "generateBatch" /\ ret.status = "ok" /\ ret.count = JsNum(1)) =>
    \A i \in 1..Len(ret.records) :
      /\ ret.records[i] =
           GeneratePersonInfo(gen, NoOptions, DrawStream(0, 1)[i], today).v
      /\ Accepted("idCardGenerator", gen.plugins["idCardGenerator"]) =>
           ret.records[i].idCard = gen.plugins["idCardGenerator"].value.s

\* with a registered plugin that returns a valid number, generateBatch(1) has
\* returned a record with another number
C29_Witness ==
  /\ ret.op = "generateBatch"
  /\ ret.status = "ok"
  /\ Len(ret.records) = 1
  /\ ~gen.plugins["idCardGenerator"].isNull
  /\ gen.plugins["idCardGenerator"].value = JsStr(PluginIdCard)
  /\ ret.records[1].idCard # PluginIdCard
  /\ GeneratePersonInfo(gen, NoOptions, DrawStream(0, 1)[1], today).v.idCard = PluginIdCard

(***************************************************************************)
(* Specification of the constructions: every lazyLoad and                   *)
(* precomputeFuzzyMatch, followed by operations that load the hierarchy,    *)
(* look names up and prepare a batch                                        *)
(***************************************************************************)

NextConstructions ==
  \/ GenerateIdCardCall
  \/ GenerateOneCall
  \/ GetAreaCodeByNameCall
  \/ Return

SpecConstructions == InitPublic /\ [][NextConstructions]_vars

\* the instance whose hierarchy was loaded and whose fuzzy index was built
\* right after the load
LoadedInstance == BuildFuzzyAreaNameCache(InitData(NewInstance(FALSE, TRUE)))

\* C30: however the instance was constructed, once an operation has run it
\* holds the hierarchy maps and the region code index of an eagerly
\* constructed instance; its fuzzy index is null unless the hierarchy is
\* loaded, and has the same contents whether the constructor, a lookup or the
\* preparation of a batch built it; and _getAreaCodeByName answers a name as
\* the eagerly constructed instance with the precomputed index does.
C30_LazyEagerEquivalent ==
  /\ ret.op # "" => gen.initialized
  /\ gen.initialized => Hierarchy(gen) = Hierarchy(LoadedInstance)
  /\ ~gen.cache.fuzzyAreaNameMap.isNull =>
       /\ gen.initialized
       /\ gen.cache.fuzzyAreaNameMap = LoadedInstance.cache.fuzzyAreaNameMap
  /\ ret.op = "_getAreaCodeByName" =>
       \E r \in {GetAreaCodeByName(LoadedInstance, ret.areaName.s)} :
         ret.isNull = r.isNull /\ ret.value = r.v

\* on an instance constructed lazily with precomputeFuzzyMatch, whose
\* constructor built nothing, a batch has been generated and its preparation
\* has built the fuzzy index
C30_Witness ==
  /\ ret.op = "generateBatch"
  /\ ret.status = "ok"
  /\ gen.options.lazyLoad
  /\ gen.options.precomputeFuzzyMatch
  /\ Construct(TRUE, TRUE).cache.fuzzyAreaNameMap.isNull
  /\ ~gen.cache.fuzzyAreaNameMap.isNull
  /\ gen.builds = [hierarchy |-> 1, fuzzy |-> 1]

====
